---- MODULE Spec2Model ----
(***************************************************************************)
(* Hierarchical page-path materialization of the Pucked CMS: the pages     *)
(* table with its materialized fullPath column, the tree builder, the two  *)
(* path generators, the three path-update strategies, the page mutations   *)
(* (create / update / reorder / delete) and the menu projection.           *)
(*                                                                         *)
(* Strings are sequences of one-character strings, so that prefix          *)
(* matching, joining and splitting are computed character by character.    *)
(***************************************************************************)
EXTENDS Integers, Sequences, FiniteSets, TLC

VARIABLES
    pages,          \* the pages table: id -> row
    translations,   \* page_translations: id -> [locale -> published flag]
    last,           \* the last completed handler call and its outcome
    reqs,           \* requests in flight between two database round-trips
    auth            \* sessions, users and invitations, the issued tokens, the clock

vars == <<pages, translations, last, reqs, auth>>

(***************************************************************************)
(* Bounds and input pools                                                  *)
(***************************************************************************)
\* Largest page id the model hands out (ids are 1..MaxPages).
MaxPages == 3

\* Longest order payload (entries) a savePageOrder request carries.
MaxOrderLen == 2

\* parentId = null
Null == 0

Locales == {"en", "fa"}

\* Titles submitted to createPageAction.
TitlePool == { <<"A", " ", "b">> }

\* Slugs submitted to updatePageAction (all pass the slug regex).
SlugPool == { <<"a">>, <<"a", "-", "b">>, <<"b">>, <<"c">> }

\* sortOrder values carried by an order payload.
SortOrders == {0}

PageIds == 1..MaxPages

\* Results that are not paths.
NoPath == << "<null>" >>
Diverges == << "<diverges>" >>

(***************************************************************************)
(* Strings                                                                 *)
(***************************************************************************)
SlugChars ==
    { "a", "b", "c", "d", "e", "f", "g", "h", "i", "j", "k", "l", "m",
      "n", "o", "p", "q", "r", "s", "t", "u", "v", "w", "x", "y", "z",
      "0", "1", "2", "3", "4", "5", "6", "7", "8", "9", "-" }

toLowerCase(c) ==
    CASE c = "A" -> "a"
      [] c = "B" -> "b"
      [] c = "C" -> "c"
      [] OTHER -> c

IsWhitespace(c) == c \in {" ", "\t", "\n"}

\* text.replace(/\s+/g, '-'): every run of whitespace becomes one "-".
RECURSIVE ReplaceWhitespaceRuns(_, _)
ReplaceWhitespaceRuns(s, inRun) ==
    IF s = <<>> THEN <<>>
    ELSE IF IsWhitespace(Head(s))
         THEN (IF inRun THEN <<>> ELSE <<"-">>) \o ReplaceWhitespaceRuns(Tail(s), TRUE)
         ELSE <<Head(s)>> \o ReplaceWhitespaceRuns(Tail(s), FALSE)

\* text.replace(/-+/g, '-'): every run of "-" becomes one "-".
RECURSIVE CollapseDashes(_, _)
CollapseDashes(s, inRun) ==
    IF s = <<>> THEN <<>>
    ELSE IF Head(s) = "-"
         THEN (IF inRun THEN <<>> ELSE <<"-">>) \o CollapseDashes(Tail(s), TRUE)
         ELSE <<Head(s)>> \o CollapseDashes(Tail(s), FALSE)

slugify(text) ==
    LET lower    == [i \in 1..Len(text) |-> toLowerCase(text[i])]
        dashed   == ReplaceWhitespaceRuns(lower, FALSE)
        stripped == SelectSeq(dashed, LAMBDA c : c \in SlugChars)
    IN  CollapseDashes(stripped, FALSE)

\* Mutant: the schema without its regex.
SlugValid_AnyChars(s) == Len(s) >= 1

\* updatePageSchema: /^[a-z0-9-]+$/ on a string of length 1..200
SlugValid(s) == Len(s) >= 1 /\ \A i \in 1..Len(s) : s[i] \in SlugChars

\* Array.prototype.join('/')
RECURSIVE Join(_)
Join(segs) ==
    IF segs = <<>> THEN <<>>
    ELSE IF Len(segs) = 1 THEN segs[1]
    ELSE segs[1] \o <<"/">> \o Join(Tail(segs))

\* String.prototype.split('/')
RECURSIVE SplitFrom(_, _)
SplitFrom(s, cur) ==
    IF s = <<>> THEN <<cur>>
    ELSE IF Head(s) = "/" THEN <<cur>> \o SplitFrom(Tail(s), <<>>)
    ELSE SplitFrom(Tail(s), Append(cur, Head(s)))

Split(s) == SplitFrom(s, <<>>)

StartsWith(s, prefix) ==
    /\ Len(prefix) <= Len(s)
    /\ SubSeq(s, 1, Len(prefix)) = prefix

(***************************************************************************)
(* The store                                                               *)
(***************************************************************************)
Ids(pgs) == DOMAIN pgs

\* Mutant: no row is ever found to hold the slug.
SlugOwners_None(pgs, slug) == {}

\* db.select().from(pages).where(eq(pages.slug, slug)).limit(1)
SlugOwners(pgs, slug) == { i \in Ids(pgs) : pgs[i].slug = slug }

\* INTEGER PRIMARY KEY: the next rowid is one more than the largest in use.
NextId(pgs) ==
    IF Ids(pgs) = {} THEN 1
    ELSE (CHOOSE m \in Ids(pgs) : \A i \in Ids(pgs) : i <= m) + 1

\* Column defaults of a freshly inserted pages row.
NewPageRow(id, title, slug) ==
    [ id |-> id, title |-> title, slug |-> slug, fullPath |-> <<>>,
      isDraft |-> TRUE, showOnMenu |-> TRUE, parentId |-> Null, sortOrder |-> 0 ]

\* page_translations.published DEFAULT false, one row per locale on create.
NewTranslations == [l \in Locales |-> FALSE]

\* db.select().from(pages).orderBy(pages.sortOrder): rows by sortOrder,
\* rows of equal sortOrder in rowid order.
RECURSIVE OrderBySortOrder(_, _)
OrderBySortOrder(pgs, S) ==
    IF S = {} THEN <<>>
    ELSE LET m == CHOOSE i \in S :
                    \A j \in S : \/ pgs[i].sortOrder < pgs[j].sortOrder
                                 \/ (pgs[i].sortOrder = pgs[j].sortOrder /\ i <= j)
         IN  <<pgs[m]>> \o OrderBySortOrder(pgs, S \ {m})

SelectAllPages(pgs) == OrderBySortOrder(pgs, Ids(pgs))

\* db.select().from(pages), without ORDER BY: the rows in rowid order.
RECURSIVE RowsById(_, _)
RowsById(pgs, S) ==
    IF S = {} THEN <<>>
    ELSE LET m == CHOOSE i \in S : \A j \in S : i <= j
         IN  <<pgs[m]>> \o RowsById(pgs, S \ {m})

SelectUnordered(pgs) == RowsById(pgs, Ids(pgs))

(***************************************************************************)
(* Tree Builder                                                            *)
(***************************************************************************)
\* The published translations of a page, "en" first (insertion order).
PublishedTranslations(tm, id) ==
    IF id \in DOMAIN tm
    THEN SelectSeq(<<"en", "fa">>, LAMBDA l : tm[id][l])
    ELSE <<>>

\* Mutant: the node carries the stored fullPath where its slug belongs.
RECURSIVE buildPageTree_PathAsSlug(_, _, _)
buildPageTree_PathAsSlug(allPages, translationsMap, parentId) ==
    LET childPages == SelectSeq(allPages, LAMBDA p : p.parentId = parentId)
    IN  [ i \in 1..Len(childPages) |->
            LET page == childPages[i]
                publishedTranslations == PublishedTranslations(translationsMap, page.id)
            IN  [ page |-> [page EXCEPT !.slug = page.fullPath],
                  translations |-> publishedTranslations,
                  translation |-> IF publishedTranslations = <<>> THEN "null"
                                  ELSE publishedTranslations[1],
                  children |-> buildPageTree_PathAsSlug(allPages, translationsMap, page.id) ] ]

\* Mutant: the siblings come out last first.
RECURSIVE buildPageTree_Reversed(_, _, _)
buildPageTree_Reversed(allPages, translationsMap, parentId) ==
    LET childPages == SelectSeq(allPages, LAMBDA p : p.parentId = parentId)
        n == Len(childPages)
    IN  [ i \in 1..n |->
            LET page == childPages[n + 1 - i]
                publishedTranslations == PublishedTranslations(translationsMap, page.id)
            IN  [ page |-> page,
                  translations |-> publishedTranslations,
                  translation |-> IF publishedTranslations = <<>> THEN "null"
                                  ELSE publishedTranslations[1],
                  children |-> buildPageTree_Reversed(allPages, translationsMap, page.id) ] ]

\* Mutant: a page whose parentId names no row is listed among the roots.
RECURSIVE buildPageTree_OrphansAtRoot(_, _, _)
buildPageTree_OrphansAtRoot(allPages, translationsMap, parentId) ==
    LET childPages ==
            SelectSeq(allPages,
                      LAMBDA p : \/ p.parentId = parentId
                                 \/ /\ parentId = Null
                                    /\ \A k \in 1..Len(allPages) :
                                          allPages[k].id # p.parentId)
    IN  [ i \in 1..Len(childPages) |->
            LET page == childPages[i]
                publishedTranslations == PublishedTranslations(translationsMap, page.id)
            IN  [ page |-> page,
                  translations |-> publishedTranslations,
                  translation |-> IF publishedTranslations = <<>> THEN "null"
                                  ELSE publishedTranslations[1],
                  children |-> buildPageTree_OrphansAtRoot(allPages, translationsMap,
                                                           page.id) ] ]

RECURSIVE buildPageTree(_, _, _)
buildPageTree(allPages, translationsMap, parentId) ==
    LET childPages == SelectSeq(allPages, LAMBDA p : p.parentId = parentId)
    IN  [ i \in 1..Len(childPages) |->
            LET page == childPages[i]
                publishedTranslations == PublishedTranslations(translationsMap, page.id)
            IN  [ page |-> page,
                  translations |-> publishedTranslations,
                  translation |-> IF publishedTranslations = <<>> THEN "null"
                                  ELSE publishedTranslations[1],
                  children |-> buildPageTree(allPages, translationsMap, page.id) ] ]

\* Whether buildPageTree(allPages, _, parentId) returns: the recursion has no
\* depth guard, and a chain of calls longer than the list never ends.
RECURSIVE BuildReturns(_, _, _)
BuildReturns(allPages, parentId, calls) ==
    \A k \in 1..Len(allPages) :
        allPages[k].parentId = parentId
            => /\ calls <= Len(allPages)
               /\ BuildReturns(allPages, allPages[k].id, calls + 1)

buildPageTreeReturns(allPages, parentId) == BuildReturns(allPages, parentId, 1)

\* The ids of the nodes of a tree.
RECURSIVE TreeIds(_)
TreeIds(tree) ==
    UNION { {tree[i].page.id} \cup TreeIds(tree[i].children) : i \in 1..Len(tree) }

(***************************************************************************)
(* Path Generator                                                          *)
(***************************************************************************)
\* Mutant: the root case is not told apart.
NodePath_AlwaysSlash(parentPath, slug) == parentPath \o <<"/">> \o slug

NodePath(parentPath, slug) ==
    IF parentPath = <<>> THEN slug ELSE parentPath \o <<"/">> \o slug

\* buildFullPathMap(tree, parentPath = ""): the set of <<id, path>> entries.
RECURSIVE buildFullPathMap(_, _)
buildFullPathMap(tree, parentPath) ==
    UNION { LET fullPath == NodePath(parentPath, tree[i].page.slug)
            IN  {<<tree[i].page.id, fullPath>>}
                   \cup buildFullPathMap(tree[i].children, fullPath)
            : i \in 1..Len(tree) }

MapKeys(m) == { e[1] : e \in m }
MapGet(m, k) == (CHOOSE e \in m : e[1] = k)[2]

\* getFullPathFromTree(tree, pageId): depth-first search, null when absent.
RECURSIVE FindFrom(_, _, _, _)
FindFrom(tree, i, pageId, parentPath) ==
    IF i > Len(tree) THEN NoPath
    ELSE LET fullPath == NodePath(parentPath, tree[i].page.slug)
         IN  IF tree[i].page.id = pageId THEN fullPath
             ELSE LET below == FindFrom(tree[i].children, 1, pageId, fullPath)
                  IN  IF below # NoPath THEN below
                      ELSE FindFrom(tree, i + 1, pageId, parentPath)

\* Mutant: only the top level of the tree is searched.
getFullPathFromTree_TopLevel(tree, pageId) ==
    IF \E i \in 1..Len(tree) : tree[i].page.id = pageId
    THEN tree[CHOOSE i \in 1..Len(tree) : tree[i].page.id = pageId].page.slug
    ELSE NoPath

getFullPathFromTree(tree, pageId) == FindFrom(tree, 1, pageId, <<>>)

\* Mutant: push where the walk unshifts, so the slugs come out leaf first.
RECURSIVE GenerateWalk_Push(_, _, _, _)
GenerateWalk_Push(pgs, currentId, pathSegments, lookups) ==
    IF currentId = Null THEN Join(pathSegments)
    ELSE IF currentId \notin Ids(pgs) THEN Join(pathSegments)
    ELSE IF lookups > Cardinality(Ids(pgs)) THEN Diverges
    ELSE GenerateWalk_Push(pgs, pgs[currentId].parentId,
                           Append(pathSegments, pgs[currentId].slug), lookups + 1)

\* Mutant: a lookup that finds no row gives up the whole path.
RECURSIVE GenerateWalk_MissingIsNull(_, _, _, _)
GenerateWalk_MissingIsNull(pgs, currentId, pathSegments, lookups) ==
    IF currentId = Null THEN Join(pathSegments)
    ELSE IF currentId \notin Ids(pgs) THEN NoPath
    ELSE IF lookups > Cardinality(Ids(pgs)) THEN Diverges
    ELSE GenerateWalk_MissingIsNull(pgs, pgs[currentId].parentId,
                                    <<pgs[currentId].slug>> \o pathSegments, lookups + 1)

\* Mutant: the walk stops after as many lookups as the table has rows.
RECURSIVE GenerateWalk_DepthGuard(_, _, _, _)
GenerateWalk_DepthGuard(pgs, currentId, pathSegments, lookups) ==
    IF currentId = Null THEN Join(pathSegments)
    ELSE IF currentId \notin Ids(pgs) THEN Join(pathSegments)
    ELSE IF lookups > Cardinality(Ids(pgs)) THEN Join(pathSegments)
    ELSE GenerateWalk_DepthGuard(pgs, pgs[currentId].parentId,
                                 <<pgs[currentId].slug>> \o pathSegments, lookups + 1)

\* generateFullPath(pageId): one lookup per ancestor; the walk has no cycle
\* guard, so a walk longer than the table never ends.
RECURSIVE GenerateWalk(_, _, _, _)
GenerateWalk(pgs, currentId, pathSegments, lookups) ==
    IF currentId = Null THEN Join(pathSegments)
    ELSE IF currentId \notin Ids(pgs) THEN Join(pathSegments)
    ELSE IF lookups > Cardinality(Ids(pgs)) THEN Diverges
    ELSE GenerateWalk(pgs, pgs[currentId].parentId,
                      <<pgs[currentId].slug>> \o pathSegments, lookups + 1)

generateFullPath(pgs, pageId) == GenerateWalk(pgs, pageId, <<>>, 1)

\* The number of selects a walk that ends has issued (the one that finds no
\* row included).
RECURSIVE GenerateLookups(_, _, _)
GenerateLookups(pgs, currentId, lookups) ==
    IF currentId = Null THEN lookups
    ELSE IF currentId \notin Ids(pgs) THEN lookups + 1
    ELSE IF lookups > Cardinality(Ids(pgs)) THEN lookups
    ELSE GenerateLookups(pgs, pgs[currentId].parentId, lookups + 1)

(***************************************************************************)
(* Path Updater                                                            *)
(***************************************************************************)
\* Mutant: the update without its where clause.
SetFullPath_NoWhere(pgs, id, fullPath) ==
    [ i \in Ids(pgs) |-> [pgs[i] EXCEPT !.fullPath = fullPath] ]

SetFullPath(pgs, id, fullPath) ==
    IF id \in Ids(pgs) THEN [pgs EXCEPT ![id].fullPath = fullPath] ELSE pgs

\* Strategy A
updatePageFullPath(pgs, pageId) ==
    SetFullPath(pgs, pageId, generateFullPath(pgs, pageId))

\* SQLite LIKE: "%" any run, "_" any one character, letters case-blind.
RECURSIVE Like(_, _)
Like(s, pattern) ==
    IF pattern = <<>> THEN s = <<>>
    ELSE IF Head(pattern) = "%"
         THEN Like(s, Tail(pattern)) \/ (s # <<>> /\ Like(Tail(s), pattern))
    ELSE IF s = <<>> THEN FALSE
    ELSE IF Head(pattern) = "_" THEN Like(Tail(s), Tail(pattern))
    ELSE toLowerCase(Head(s)) = toLowerCase(Head(pattern))
            /\ Like(Tail(s), Tail(pattern))

\* Mutant: the pattern without the "/" boundary.
DescendantPattern_NoSlash(oldFullPath) == oldFullPath \o <<"%">>

\* where full_path LIKE `${oldFullPath}/%`
DescendantPattern(oldFullPath) == oldFullPath \o <<"/", "%">>

SelectDescendants(pgs, oldFullPath) ==
    { i \in Ids(pgs) : Like(pgs[i].fullPath, DescendantPattern(oldFullPath)) }

\* Mutant: the new slug is appended to the old path.
RenamedPath_Appended(oldFullPath, newSlug) == oldFullPath \o <<"/">> \o newSlug

\* The new path of the renamed page: the old one with its last segment replaced.
RenamedPath(oldFullPath, newSlug) ==
    LET segs      == Split(oldFullPath)
        oldPrefix == Join(SubSeq(segs, 1, Len(segs) - 1))
    IN  IF oldPrefix = <<>> THEN newSlug ELSE oldPrefix \o <<"/">> \o newSlug

\* The old prefix of a descendant's path replaced by the new one.
ReplacePrefix(fullPath, oldFullPath, newFullPath) ==
    newFullPath \o SubSeq(fullPath, Len(oldFullPath) + 1, Len(fullPath))

\* Strategy B
updateFullPathForSlugChange(pgs, pageId, newSlug) ==
    IF pageId \notin Ids(pgs) THEN pgs
    ELSE LET oldFullPath == pgs[pageId].fullPath
             newFullPath == RenamedPath(oldFullPath, newSlug)
             renamed     == [pgs EXCEPT ![pageId].fullPath = newFullPath,
                                        ![pageId].slug = newSlug]
             descendants == SelectDescendants(renamed, oldFullPath)
         IN  [ i \in Ids(pgs) |->
                 IF i \in descendants
                 THEN [renamed[i] EXCEPT !.fullPath =
                          ReplacePrefix(renamed[i].fullPath, oldFullPath, newFullPath)]
                 ELSE renamed[i] ]

\* Mutant: the rows outside the tree are given their slug as path.
updateFullPathsForTree_AllRows(pgs, tree) ==
    LET pathMap == buildFullPathMap(tree, <<>>)
    IN  [ i \in Ids(pgs) |->
            [pgs[i] EXCEPT !.fullPath = IF i \in MapKeys(pathMap)
                                        THEN MapGet(pathMap, i)
                                        ELSE pgs[i].slug] ]

\* Strategy C: one write per node of the tree.
updateFullPathsForTree(pgs, tree) ==
    LET pathMap == buildFullPathMap(tree, <<>>)
    IN  [ i \in Ids(pgs) |->
            IF i \in MapKeys(pathMap)
            THEN [pgs[i] EXCEPT !.fullPath = MapGet(pathMap, i)]
            ELSE pgs[i] ]

(***************************************************************************)
(* Menu Projector                                                          *)
(***************************************************************************)
\* findMany where showOnMenu = true, ordered by sortOrder.
MenuCandidates(pgs) == SelectSeq(SelectAllPages(pgs), LAMBDA p : p.showOnMenu)

\* Mutant: a translation of any locale counts.
HasPublishedTranslation_AnyLocale(tm, id, locale) ==
    \E l \in Locales : tm[id][l]

\* with translations where locale = :locale and published = true; length > 0
HasPublishedTranslation(tm, id, locale) == tm[id][locale]

pagesWithTranslations(pgs, tm, locale) ==
    SelectSeq(MenuCandidates(pgs), LAMBDA p : HasPublishedTranslation(tm, p.id, locale))

\* The items pushed to the children of the item of parentId (second pass).
RECURSIVE MenuItems(_, _)
MenuItems(rows, parentId) ==
    LET below == SelectSeq(rows, LAMBDA p : p.parentId = parentId)
    IN  [ i \in 1..Len(below) |->
            [ id |-> below[i].id, slug |-> below[i].slug,
              fullPath |-> below[i].fullPath,
              children |-> MenuItems(rows, below[i].id) ] ]

\* Mutant: an item whose parent is not in the map is pushed to the root list.
getMenuTree_OrphansToRoot(pgs, tm, locale) ==
    LET rows == pagesWithTranslations(pgs, tm, locale)
        kept == { rows[i].id : i \in 1..Len(rows) }
        top  == SelectSeq(rows, LAMBDA p : p.parentId = Null \/ p.parentId \notin kept)
    IN  [ i \in 1..Len(top) |->
            [ id |-> top[i].id, slug |-> top[i].slug, fullPath |-> top[i].fullPath,
              children |-> MenuItems(rows, top[i].id) ] ]

\* getMenuTree(locale): rootItems
getMenuTree(pgs, tm, locale) ==
    MenuItems(pagesWithTranslations(pgs, tm, locale), Null)

\* The ids of the items of a menu, at any depth.
RECURSIVE MenuIds(_)
MenuIds(items) ==
    UNION { {items[i].id} \cup MenuIds(items[i].children) : i \in 1..Len(items) }

(***************************************************************************)
(* Handlers, each run to completion                                        *)
(***************************************************************************)
\* No session was ever created (the page handlers take the user as given).
NoAuth ==
    [ sessions |-> [id \in {} |-> {}], issued |-> {}, now |-> 0,
      users |-> [id \in {} |-> {}], invitations |-> [code \in {} |-> {}] ]

Done(op, id, ok, old) == [op |-> op, id |-> id, ok |-> ok, old |-> old]

\* createPageAction(prevState, formData)
CreatePageAction(title) ==
    LET slug  == slugify(title)
        newId == NextId(pages)
    IN  /\ newId <= MaxPages
        /\ IF SlugOwners(pages, slug) # {}
           THEN \* UNIQUE(slug) rejects the insert; the catch returns _form error
                /\ UNCHANGED <<pages, translations>>
                /\ last' = Done("createPageAction", Null, FALSE, <<>>)
           ELSE /\ pages' = [ i \in Ids(pages) \cup {newId} |->
                                IF i = newId THEN NewPageRow(newId, title, slug)
                                ELSE pages[i] ]
                /\ translations' = [ i \in Ids(pages) \cup {newId} |->
                                       IF i = newId THEN NewTranslations
                                       ELSE translations[i] ]
                /\ last' = Done("createPageAction", newId, TRUE, <<>>)
        /\ UNCHANGED reqs
        /\ UNCHANGED auth

\* Mutant: the row update without the path update.
UpdatePageWrites_RowOnly(pgs, pageId, title, slug, isDraft, showOnMenu) ==
    [pgs EXCEPT ![pageId].title = title, ![pageId].slug = slug,
                ![pageId].isDraft = isDraft, ![pageId].showOnMenu = showOnMenu]

\* Mutant: the row update followed by a recompute of every path.
UpdatePageWrites_Recompute(pgs, pageId, title, slug, isDraft, showOnMenu) ==
    LET row == [pgs EXCEPT ![pageId].title = title, ![pageId].slug = slug,
                           ![pageId].isDraft = isDraft, ![pageId].showOnMenu = showOnMenu]
    IN  updateFullPathsForTree(row, buildPageTree(SelectAllPages(row), <<>>, Null))

\* The row update of updatePageAction followed by the path update.
UpdatePageWrites(pgs, pageId, title, slug, isDraft, showOnMenu) ==
    updateFullPathForSlugChange(
        [pgs EXCEPT ![pageId].title = title, ![pageId].slug = slug,
                    ![pageId].isDraft = isDraft, ![pageId].showOnMenu = showOnMenu],
        pageId, slug)

\* Mutant: the slug is not looked up before the row is written.
UpdatePageAction_NoConflictCheck(pageId, title, slug, isDraft, showOnMenu) ==
    /\ IF ~SlugValid(slug) \/ pageId \notin Ids(pages)
       THEN /\ UNCHANGED pages
            /\ last' = Done("updatePageAction", pageId, FALSE, <<>>)
       ELSE /\ pages' = UpdatePageWrites(pages, pageId, title, slug, isDraft, showOnMenu)
            /\ last' = Done("updatePageAction", pageId, TRUE, pages[pageId].fullPath)
    /\ UNCHANGED <<translations, reqs>>
    /\ UNCHANGED auth

\* updatePageAction(prevState, formData) of actions.ts: the same checks, then
\* the row update alone.
UpdatePageActionActionsTs(pageId, title, slug, isDraft, showOnMenu) ==
    /\ IF \/ ~SlugValid(slug)
          \/ pageId \notin Ids(pages)
          \/ \E c \in SlugOwners(pages, slug) : c # pageId
       THEN /\ UNCHANGED pages
            /\ last' = Done("updatePageAction (actions.ts)", pageId, FALSE, <<>>)
       ELSE /\ pages' = [pages EXCEPT ![pageId].title = title, ![pageId].slug = slug,
                                      ![pageId].isDraft = isDraft,
                                      ![pageId].showOnMenu = showOnMenu]
            /\ last' = Done("updatePageAction (actions.ts)", pageId, TRUE,
                            pages[pageId].fullPath)
    /\ UNCHANGED <<translations, reqs>>
    /\ UNCHANGED auth

\* updatePageAction(pageId, prevState, formData)
UpdatePageAction(pageId, title, slug, isDraft, showOnMenu) ==
    /\ IF \/ ~SlugValid(slug)
          \/ pageId \notin Ids(pages)
          \/ \E c \in SlugOwners(pages, slug) : c # pageId
       THEN /\ UNCHANGED pages
            /\ last' = Done("updatePageAction", pageId, FALSE, <<>>)
       ELSE /\ pages' = UpdatePageWrites(pages, pageId, title, slug, isDraft, showOnMenu)
            /\ last' = Done("updatePageAction", pageId, TRUE, pages[pageId].fullPath)
    /\ UNCHANGED <<translations, reqs>>
    /\ UNCHANGED auth

\* One iteration of the first loop of savePageOrder: a single-row UPDATE.
\* A parent_id naming no row violates the foreign key and the UPDATE throws.
OrderEntryThrows(pgs, e) ==
    e.id \in Ids(pgs) /\ e.parentId # Null /\ e.parentId \notin Ids(pgs)

WriteOrderEntry(pgs, e) ==
    IF e.id \in Ids(pgs)
    THEN [pgs EXCEPT ![e.id].parentId = e.parentId, ![e.id].sortOrder = e.sortOrder]
    ELSE pgs

\* The first loop: the rows written before the first throwing entry stay written.
RECURSIVE WriteOrder(_, _)
WriteOrder(pgs, order) ==
    IF order = <<>> THEN [pgs |-> pgs, ok |-> TRUE]
    ELSE IF OrderEntryThrows(pgs, Head(order)) THEN [pgs |-> pgs, ok |-> FALSE]
    ELSE WriteOrder(WriteOrderEntry(pgs, Head(order)), Tail(order))

\* Mutant: the parent writes without the batch recompute.
RecomputeAllPaths_Skipped(pgs, tm) == pgs

\* Lines 241-257: read all pages, build the tree, write every path.
RecomputeAllPaths(pgs, tm) ==
    updateFullPathsForTree(pgs, buildPageTree(SelectAllPages(pgs), tm, Null))

\* savePageOrder(prevState, formData)
SavePageOrder(order) ==
    LET written == WriteOrder(pages, order)
    IN  /\ IF written.ok
           THEN pages' = RecomputeAllPaths(written.pgs, translations)
           ELSE pages' = written.pgs
        /\ last' = Done("savePageOrder", Null, written.ok, <<>>)
        /\ UNCHANGED <<translations, reqs>>
        /\ UNCHANGED auth

\* savePageOrder of app/actions.ts: the parent and sortOrder writes only.
SavePageOrderActionsTs(order) ==
    LET written == WriteOrder(pages, order)
    IN  /\ pages' = written.pgs
        /\ last' = Done("savePageOrder (actions.ts)", Null, written.ok, <<>>)
        /\ UNCHANGED <<translations, reqs>>
        /\ UNCHANGED auth

\* The formErrors deletePageAction returns.
PageNotFound == << "Page not found" >>
HasChildPages == << "Cannot delete page with child pages" >>

\* Mutant: the page is deleted without the check for child pages; the
\* children's parent_id is set to null (ON DELETE SET NULL).
DeletePageAction_NoChildCheck(pageId) ==
    /\ IF pageId \notin Ids(pages)
       THEN /\ UNCHANGED <<pages, translations>>
            /\ last' = Done("deletePageAction", pageId, FALSE, PageNotFound)
       ELSE /\ pages' = [ i \in Ids(pages) \ {pageId} |->
                            IF pages[i].parentId = pageId
                            THEN [pages[i] EXCEPT !.parentId = Null] ELSE pages[i] ]
            /\ translations' = [ i \in Ids(pages) \ {pageId} |-> translations[i] ]
            /\ last' = Done("deletePageAction", pageId, TRUE, <<>>)
    /\ UNCHANGED reqs
    /\ UNCHANGED auth

\* deletePageAction(pageId)
DeletePageAction(pageId) ==
    /\ IF pageId \notin Ids(pages)
       THEN /\ UNCHANGED <<pages, translations>>
            /\ last' = Done("deletePageAction", pageId, FALSE, PageNotFound)
       ELSE IF \E c \in Ids(pages) : pages[c].parentId = pageId
       THEN /\ UNCHANGED <<pages, translations>>
            /\ last' = Done("deletePageAction", pageId, FALSE, HasChildPages)
       ELSE \* ON DELETE CASCADE removes the page's translations
            /\ pages' = [ i \in Ids(pages) \ {pageId} |-> pages[i] ]
            /\ translations' = [ i \in Ids(pages) \ {pageId} |-> translations[i] ]
            /\ last' = Done("deletePageAction", pageId, TRUE, <<>>)
    /\ UNCHANGED reqs
    /\ UNCHANGED auth

\* savePageContent(pageId, locale, prevState, formData): upsert, published
SavePageContent(pageId, locale) ==
    /\ IF pageId \notin Ids(pages)
       THEN /\ UNCHANGED translations
            /\ last' = Done("savePageContent", pageId, FALSE, <<>>)
       ELSE /\ translations' = [translations EXCEPT ![pageId][locale] = TRUE]
            /\ last' = Done("savePageContent", pageId, TRUE, <<>>)
    /\ UNCHANGED <<pages, reqs>>
    /\ UNCHANGED auth

\* The "toggle-publish" action of the translation settings
TogglePublish(pageId, locale) ==
    /\ pageId \in Ids(pages)
    /\ translations' = [translations EXCEPT ![pageId][locale] = ~translations[pageId][locale]]
    /\ last' = Done("togglePublish", pageId, TRUE, <<>>)
    /\ UNCHANGED <<pages, reqs>>
    /\ UNCHANGED auth

(***************************************************************************)
(* Inputs                                                                  *)
(***************************************************************************)
\* Order entries that name rows of the table, as the drag-and-drop tree sends.
OrderEntries ==
    [ id : Ids(pages), parentId : {Null} \cup Ids(pages), sortOrder : SortOrders ]

DistinctIds(order) ==
    \A i, j \in 1..Len(order) : i # j => order[i].id # order[j].id

OrderPayloads ==
    { o \in UNION { [1..n -> OrderEntries] : n \in 1..MaxOrderLen } : DistinctIds(o) }

\* The parent pointers form a forest: every chain of parents ends at null.
Acyclic(pgs) == \A i \in Ids(pgs) : generateFullPath(pgs, i) # Diverges

\* Payloads a drag-and-drop tree can produce: the result is again a forest.
ForestPayload(order) == Acyclic(WriteOrder(pages, order).pgs)

\* The title / draft / menu fields a rename form resubmits unchanged.
Resubmitted(pageId) ==
    IF pageId \in Ids(pages)
    THEN [title |-> pages[pageId].title, isDraft |-> pages[pageId].isDraft,
          showOnMenu |-> pages[pageId].showOnMenu]
    ELSE [title |-> <<"c">>, isDraft |-> TRUE, showOnMenu |-> TRUE]

Rename(pageId, slug) ==
    UpdatePageAction(pageId, Resubmitted(pageId).title, slug,
                     Resubmitted(pageId).isDraft, Resubmitted(pageId).showOnMenu)

(***************************************************************************)
(* Specification: whole handlers, one after another                        *)
(***************************************************************************)
Init ==
    /\ pages = <<>>
    /\ translations = <<>>
    /\ last = Done("none", Null, TRUE, <<>>)
    /\ reqs = <<>>
    /\ auth = NoAuth

Next ==
    \/ \E title \in TitlePool : CreatePageAction(title)
    \/ \E pageId \in PageIds, slug \in SlugPool : Rename(pageId, slug)
    \/ \E order \in OrderPayloads : ForestPayload(order) /\ SavePageOrder(order)
    \/ \E pageId \in PageIds : DeletePageAction(pageId)

Spec == Init /\ [][Next]_vars

(***************************************************************************)
(* Specification: order payloads of any shape                              *)
(*                                                                         *)
(* savePageOrder parses whatever JSON the form field carries, so a payload *)
(* may make a page its own ancestor.  The runs start from the three-level  *)
(* chain a, a/b, a/b/c, a store the handlers above produce.                *)
(***************************************************************************)
SeedRow(id, slug, parentId, fullPath) ==
    [ id |-> id, title |-> <<"A", " ", "b">>, slug |-> slug, fullPath |-> fullPath,
      isDraft |-> TRUE, showOnMenu |-> TRUE, parentId |-> parentId, sortOrder |-> 0 ]

SeedPages ==
    << SeedRow(1, <<"a">>, Null, <<"a">>),
       SeedRow(2, <<"b">>, 1, <<"a", "/", "b">>),
       SeedRow(3, <<"c">>, 2, <<"a", "/", "b", "/", "c">>) >>

InitSeeded ==
    /\ pages = SeedPages
    /\ translations = [i \in DOMAIN SeedPages |-> NewTranslations]
    /\ last = Done("none", Null, TRUE, <<>>)
    /\ reqs = <<>>
    /\ auth = NoAuth

NextForged ==
    \/ \E order \in OrderPayloads : SavePageOrder(order)
    \/ \E pageId \in PageIds : DeletePageAction(pageId)

SpecForged == InitSeeded /\ [][NextForged]_vars

(***************************************************************************)
(* Specification: visibility changes on the three-level chain              *)
(***************************************************************************)
\* The properties form resubmitted with the menu checkbox changed.
SetShowOnMenu(pageId, showOnMenu) ==
    UpdatePageAction(pageId, Resubmitted(pageId).title,
                     IF pageId \in Ids(pages) THEN pages[pageId].slug ELSE <<"c">>,
                     Resubmitted(pageId).isDraft, showOnMenu)

NextMenu ==
    \/ \E pageId \in PageIds, showOnMenu \in BOOLEAN : SetShowOnMenu(pageId, showOnMenu)
    \/ \E pageId \in PageIds, locale \in Locales : SavePageContent(pageId, locale)
    \/ \E pageId \in PageIds, locale \in Locales : TogglePublish(pageId, locale)
    \/ \E e \in OrderEntries : ForestPayload(<<e>>) /\ SavePageOrder(<<e>>)

SpecMenu == InitSeeded /\ [][NextMenu]_vars

(***************************************************************************)
(* Handlers, one database round-trip at a time                             *)
(*                                                                         *)
(* No handler opens a transaction: every awaited query is a step of its    *)
(* own, and the table can be read (or written by another request) between  *)
(* any two of them.  reqs[r] is the position of request r.                 *)
(***************************************************************************)
\* The path invariant of one row.
PathConsistent(pgs, i) ==
    IF pgs[i].parentId = Null THEN pgs[i].fullPath = pgs[i].slug
    ELSE /\ pgs[i].parentId \in Ids(pgs)
         /\ pgs[i].fullPath = pgs[pgs[i].parentId].fullPath \o <<"/">> \o pgs[i].slug

PathInvariant == \A i \in Ids(pages) : PathConsistent(pages, i)

Idle ==
    [ pc |-> "idle", pageId |-> Null, slug |-> <<>>, order |-> <<>>,
      writes |-> <<>>, old |-> <<>>, new |-> <<>>, held |-> FALSE ]

\* The fullPath writes of updateFullPathsForTree, in the order of the walk.
RECURSIVE PathWritesFrom(_, _, _)
PathWritesFrom(tree, i, parentPath) ==
    IF i > Len(tree) THEN <<>>
    ELSE LET fullPath == NodePath(parentPath, tree[i].page.slug)
         IN  << <<tree[i].page.id, fullPath>> >>
                \o PathWritesFrom(tree[i].children, 1, fullPath)
                \o PathWritesFrom(tree, i + 1, parentPath)

\* Mutant: only the root nodes are written.
PathWrites_RootsOnly(tree) ==
    [ i \in 1..Len(tree) |-> <<tree[i].page.id, tree[i].page.slug>> ]

PathWrites(tree) == PathWritesFrom(tree, 1, <<>>)

\* savePageOrder is called with a parsed order payload.
BeginSavePageOrder(r, order) ==
    /\ reqs[r].pc = "idle"
    /\ reqs' = [reqs EXCEPT ![r] =
                  [Idle EXCEPT !.pc = "order", !.order = order, !.held = PathInvariant]]
    /\ UNCHANGED <<pages, translations, last>>
    /\ UNCHANGED auth

\* One iteration of the first loop (lines 228-237).
WriteOrderStep(r) ==
    /\ reqs[r].pc = "order"
    /\ reqs[r].order # <<>>
    /\ IF OrderEntryThrows(pages, Head(reqs[r].order))
       THEN /\ reqs' = [reqs EXCEPT ![r] = Idle]
            /\ last' = Done("savePageOrder", Null, FALSE, <<>>)
            /\ UNCHANGED pages
       ELSE /\ pages' = WriteOrderEntry(pages, Head(reqs[r].order))
            /\ reqs' = [reqs EXCEPT ![r].order = Tail(reqs[r].order)]
            /\ UNCHANGED last
    /\ UNCHANGED translations
    /\ UNCHANGED auth

\* Lines 241-254: the table is read and the tree and its paths are computed.
ReadTreeStep(r) ==
    /\ reqs[r].pc = "order"
    /\ reqs[r].order = <<>>
    /\ LET tree   == buildPageTree(SelectAllPages(pages), translations, Null)
           writes == PathWrites(tree)
       IN  IF writes = <<>>
           THEN /\ reqs' = [reqs EXCEPT ![r] = Idle]
                /\ last' = Done("savePageOrder", Null, TRUE, <<>>)
           ELSE /\ reqs' = [reqs EXCEPT ![r].pc = "paths", ![r].writes = writes]
                /\ UNCHANGED last
    /\ UNCHANGED <<pages, translations>>
    /\ UNCHANGED auth

\* One fullPath write of updateFullPathsForTree (line 257).
WritePathStep(r) ==
    /\ reqs[r].pc = "paths"
    /\ pages' = SetFullPath(pages, Head(reqs[r].writes)[1], Head(reqs[r].writes)[2])
    /\ IF Len(reqs[r].writes) = 1
       THEN /\ reqs' = [reqs EXCEPT ![r] = Idle]
            /\ last' = Done("savePageOrder", Null, TRUE, <<>>)
       ELSE /\ reqs' = [reqs EXCEPT ![r].writes = Tail(reqs[r].writes)]
            /\ UNCHANGED last
    /\ UNCHANGED translations
    /\ UNCHANGED auth

\* updatePageAction is called with a form that passes updatePageSchema.
BeginUpdatePage(r, pageId, slug) ==
    /\ reqs[r].pc = "idle"
    /\ SlugValid(slug)
    /\ reqs' = [reqs EXCEPT ![r] =
                  [Idle EXCEPT !.pc = "existing", !.pageId = pageId, !.slug = slug,
                               !.held = PathInvariant]]
    /\ UNCHANGED <<pages, translations, last>>
    /\ UNCHANGED auth

\* Lines 141-147
ReadExistingStep(r) ==
    /\ reqs[r].pc = "existing"
    /\ IF reqs[r].pageId \notin Ids(pages)
       THEN /\ reqs' = [reqs EXCEPT ![r] = Idle]
            /\ last' = Done("updatePageAction", reqs[r].pageId, FALSE, <<>>)
       ELSE /\ reqs' = [reqs EXCEPT ![r].pc = "conflict"]
            /\ UNCHANGED last
    /\ UNCHANGED <<pages, translations>>
    /\ UNCHANGED auth

\* Lines 150-158
ReadConflictStep(r) ==
    /\ reqs[r].pc = "conflict"
    /\ IF \E c \in SlugOwners(pages, reqs[r].slug) : c # reqs[r].pageId
       THEN /\ reqs' = [reqs EXCEPT ![r] = Idle]
            /\ last' = Done("updatePageAction", reqs[r].pageId, FALSE, <<>>)
       ELSE /\ reqs' = [reqs EXCEPT ![r].pc = "row"]
            /\ UNCHANGED last
    /\ UNCHANGED <<pages, translations>>
    /\ UNCHANGED auth

\* Lines 161-170: the row is updated (title, isDraft, showOnMenu resubmitted).
WriteRowStep(r) ==
    /\ reqs[r].pc = "row"
    /\ pages' = IF reqs[r].pageId \in Ids(pages)
                THEN [pages EXCEPT ![reqs[r].pageId].slug = reqs[r].slug]
                ELSE pages
    /\ reqs' = [reqs EXCEPT ![r].pc = "readPath"]
    /\ UNCHANGED <<translations, last>>
    /\ UNCHANGED auth

\* Strategy B, steps 1-3: the stored fullPath is read.
ReadPathStep(r) ==
    /\ reqs[r].pc = "readPath"
    /\ IF reqs[r].pageId \notin Ids(pages)
       THEN /\ reqs' = [reqs EXCEPT ![r] = Idle]
            /\ last' = Done("updatePageAction", reqs[r].pageId, TRUE, <<>>)
       ELSE /\ reqs' = [reqs EXCEPT
                          ![r].pc = "writePath",
                          ![r].old = pages[reqs[r].pageId].fullPath,
                          ![r].new = RenamedPath(pages[reqs[r].pageId].fullPath, reqs[r].slug)]
            /\ UNCHANGED last
    /\ UNCHANGED <<pages, translations>>
    /\ UNCHANGED auth

\* Strategy B, step 4
WriteRenamedPathStep(r) ==
    /\ reqs[r].pc = "writePath"
    /\ pages' = IF reqs[r].pageId \in Ids(pages)
                THEN [pages EXCEPT ![reqs[r].pageId].fullPath = reqs[r].new,
                                   ![reqs[r].pageId].slug = reqs[r].slug]
                ELSE pages
    /\ reqs' = [reqs EXCEPT ![r].pc = "query"]
    /\ UNCHANGED <<translations, last>>
    /\ UNCHANGED auth

\* Strategy B, step 5: the prefix-match query; the rows it returns are held.
QueryDescendantsStep(r) ==
    /\ reqs[r].pc = "query"
    /\ LET found  == SelectDescendants(pages, reqs[r].old)
           rows   == SelectSeq(SelectAllPages(pages), LAMBDA p : p.id \in found)
           writes == [ k \in 1..Len(rows) |->
                         <<rows[k].id,
                           ReplacePrefix(rows[k].fullPath, reqs[r].old, reqs[r].new)>> ]
       IN  IF writes = <<>>
           THEN /\ reqs' = [reqs EXCEPT ![r] = Idle]
                /\ last' = Done("updatePageAction", reqs[r].pageId, TRUE, reqs[r].old)
           ELSE /\ reqs' = [reqs EXCEPT ![r].pc = "descendants", ![r].writes = writes]
                /\ UNCHANGED last
    /\ UNCHANGED <<pages, translations>>
    /\ UNCHANGED auth

\* Strategy B, step 6: one write per descendant.
WriteDescendantStep(r) ==
    /\ reqs[r].pc = "descendants"
    /\ pages' = SetFullPath(pages, Head(reqs[r].writes)[1], Head(reqs[r].writes)[2])
    /\ IF Len(reqs[r].writes) = 1
       THEN /\ reqs' = [reqs EXCEPT ![r] = Idle]
            /\ last' = Done("updatePageAction", reqs[r].pageId, TRUE, reqs[r].old)
       ELSE /\ reqs' = [reqs EXCEPT ![r].writes = Tail(reqs[r].writes)]
            /\ UNCHANGED last
    /\ UNCHANGED translations
    /\ UNCHANGED auth

InitSteps ==
    /\ pages = SeedPages
    /\ translations = [i \in DOMAIN SeedPages |-> NewTranslations]
    /\ last = Done("none", Null, TRUE, <<>>)
    /\ reqs = [r \in {"r1"} |-> Idle]
    /\ auth = NoAuth

\* Slugs submitted by the renames of the step-wise runs.
StepSlugs == { <<"a">>, <<"a", "-", "b">> }

NextSteps ==
    \/ \E r \in DOMAIN reqs, order \in OrderPayloads :
          ForestPayload(order) /\ BeginSavePageOrder(r, order)
    \/ \E r \in DOMAIN reqs : WriteOrderStep(r)
    \/ \E r \in DOMAIN reqs : ReadTreeStep(r)
    \/ \E r \in DOMAIN reqs : WritePathStep(r)
    \/ \E r \in DOMAIN reqs, pageId \in PageIds, slug \in StepSlugs :
          BeginUpdatePage(r, pageId, slug)
    \/ \E r \in DOMAIN reqs : ReadExistingStep(r)
    \/ \E r \in DOMAIN reqs : ReadConflictStep(r)
    \/ \E r \in DOMAIN reqs : WriteRowStep(r)
    \/ \E r \in DOMAIN reqs : ReadPathStep(r)
    \/ \E r \in DOMAIN reqs : WriteRenamedPathStep(r)
    \/ \E r \in DOMAIN reqs : QueryDescendantsStep(r)
    \/ \E r \in DOMAIN reqs : WriteDescendantStep(r)

SpecSteps == InitSteps /\ [][NextSteps]_vars

(***************************************************************************)
(* Specification: reorders without a recompute, then renames               *)
(*                                                                         *)
(* app/actions.ts exports a savePageOrder that writes parentId and         *)
(* sortOrder and no fullPath.  From the three-level chain, pages are moved *)
(* one at a time by either savePageOrder and renamed by updatePageAction.  *)
(***************************************************************************)
NextMisuse ==
    \/ \E e \in OrderEntries : ForestPayload(<<e>>) /\ SavePageOrderActionsTs(<<e>>)
    \/ \E e \in OrderEntries : ForestPayload(<<e>>) /\ SavePageOrder(<<e>>)
    \/ \E pageId \in PageIds, slug \in SlugPool : Rename(pageId, slug)

SpecMisuse == InitSeeded /\ [][NextMisuse]_vars

(***************************************************************************)
(* Specification: two savePageOrder requests, one round-trip at a time     *)
(*                                                                         *)
(* Each of two requests is submitted once, at any moment, against the      *)
(* three-level chain: "r1" moves one page, "r2" up to MaxOrderLen pages    *)
(* and is submitted after "r1" was.  The entry "journal" of reqs is not a request: it    *)
(* records, for each request, the table the request would leave if it ran  *)
(* alone from the moment it was submitted, and whether a request was       *)
(* submitted while another one was in flight.                              *)
(***************************************************************************)
RaceSlots == {"r1", "r2"}

\* The table a savePageOrder leaves when nothing else touches the table.
RunAlone(pgs, tm, order) ==
    LET written == WriteOrder(pgs, order)
    IN  IF written.ok THEN RecomputeAllPaths(written.pgs, tm) ELSE written.pgs

Journal == reqs["journal"]

Submitted(r) == Journal.intended[r] # <<>>

InFlight(r) == reqs[r].pc # "idle"

\* savePageOrder is called; what it is meant to leave is recorded.
SubmitSavePageOrder(r, order) ==
    /\ reqs[r].pc = "idle"
    /\ ~Submitted(r)
    /\ reqs' = [reqs EXCEPT
                  ![r] = [Idle EXCEPT !.pc = "order", !.order = order,
                                      !.held = PathInvariant],
                  !["journal"] =
                      [ intended   |-> [Journal.intended EXCEPT
                                          ![r] = RunAlone(pages, translations, order)],
                        overlapped |-> \/ Journal.overlapped
                                       \/ \E o \in RaceSlots \ {r} : InFlight(o) ]]
    /\ UNCHANGED <<pages, translations, last>>
    /\ UNCHANGED auth

InitRace ==
    /\ pages = SeedPages
    /\ translations = [i \in DOMAIN SeedPages |-> NewTranslations]
    /\ last = Done("none", Null, TRUE, <<>>)
    /\ reqs = [ k \in RaceSlots \cup {"journal"} |->
                  IF k = "journal"
                  THEN [ intended |-> [r \in RaceSlots |-> <<>>], overlapped |-> FALSE ]
                  ELSE Idle ]
    /\ auth = NoAuth

NextRace ==
    \/ \E r \in RaceSlots, order \in OrderPayloads :
          /\ r = "r2" => Submitted("r1")
          /\ r = "r1" => Len(order) = 1
          /\ ForestPayload(order)
          /\ SubmitSavePageOrder(r, order)
    \/ \E r \in RaceSlots : WriteOrderStep(r)
    \/ \E r \in RaceSlots : ReadTreeStep(r)
    \/ \E r \in RaceSlots : WritePathStep(r)

SpecRace == InitRace /\ [][NextRace]_vars

(***************************************************************************)
(* Specification: the path functions on tables of any shape                *)
(*                                                                         *)
(* The tree builder and the path generators are functions of the rows they *)
(* are given.  The runs start from every table over the ids 1..MaxPages,   *)
(* with any parent pointers (to a row, to a missing row, around a cycle)   *)
(* and any sortOrder, and call the functions with every id.                *)
(***************************************************************************)
CoreSortOrders == {0, 1}

CoreSlug(id) ==
    CASE id = 1 -> <<"a", "-", "b">>
      [] id = 2 -> <<"b">>
      [] id = 3 -> <<"c">>
      [] OTHER  -> <<"d">>

CoreRow(id, parentId, sortOrder) ==
    [ id |-> id, title |-> <<"A", " ", "b">>, slug |-> CoreSlug(id), fullPath |-> <<>>,
      isDraft |-> TRUE, showOnMenu |-> TRUE, parentId |-> parentId,
      sortOrder |-> sortOrder ]

CoreStores ==
    UNION { { [ i \in S |-> CoreRow(i, f[i][1], f[i][2]) ] :
                f \in [S -> (({Null} \cup PageIds) \X CoreSortOrders)] } :
            S \in SUBSET PageIds }

\* generateFullPath(pageId) is called; what it returns is kept in last.old,
\* and last.ok tells whether it returned at all.
CallGenerateFullPath(pageId) ==
    /\ last' = Done("generateFullPath", pageId,
                    generateFullPath(pages, pageId) # Diverges,
                    generateFullPath(pages, pageId))
    /\ UNCHANGED <<pages, translations, reqs>>
    /\ UNCHANGED auth

\* getFullPathFromTree(tree, pageId) on the tree built from the table.
CallGetFullPathFromTree(pageId) ==
    /\ last' = Done("getFullPathFromTree", pageId, TRUE,
                    getFullPathFromTree(
                        buildPageTree(SelectAllPages(pages), translations, Null), pageId))
    /\ UNCHANGED <<pages, translations, reqs>>
    /\ UNCHANGED auth

\* buildFullPathMap(tree) on the tree built from the table.
CallBuildFullPathMap ==
    /\ last' = Done("buildFullPathMap", Null, TRUE,
                    buildFullPathMap(
                        buildPageTree(SelectAllPages(pages), translations, Null), <<>>))
    /\ UNCHANGED <<pages, translations, reqs>>
    /\ UNCHANGED auth

\* The lists of rows buildPageTree is given: savePageOrder reads them with
\* ORDER BY sortOrder, the one-off population of the paths without.
TreeInputs(pgs) == { SelectAllPages(pgs), SelectUnordered(pgs) }

\* buildPageTree(allPages, translationsMap, parentId) on the rows of the
\* table; last.ok tells whether it returned, last.old holds the list it was
\* given and the tree it returned.
CallBuildPageTree(allPages, parentId) ==
    LET returns == buildPageTreeReturns(allPages, parentId)
    IN  /\ last' = Done("buildPageTree", parentId, returns,
                        [ list |-> allPages,
                          tree |-> IF returns
                                   THEN buildPageTree(allPages, translations, parentId)
                                   ELSE Diverges ])
        /\ UNCHANGED <<pages, translations, reqs>>
        /\ UNCHANGED auth

InitCore ==
    /\ pages \in CoreStores
    /\ translations = [i \in Ids(pages) |-> NewTranslations]
    /\ last = Done("none", Null, TRUE, <<>>)
    /\ reqs = <<>>
    /\ auth = NoAuth

NextCore ==
    \/ \E pageId \in PageIds : CallGenerateFullPath(pageId)
    \/ \E pageId \in PageIds : CallGetFullPathFromTree(pageId)
    \/ CallBuildFullPathMap
    \/ \E allPages \in TreeInputs(pages), parentId \in {Null} \cup PageIds :
          CallBuildPageTree(allPages, parentId)

SpecCore == InitCore /\ [][NextCore]_vars

(***************************************************************************)
(* Specification: the properties form, saved through either handler        *)
(*                                                                         *)
(* The form is submitted with a new title and both checkboxes cleared, for *)
(* any page id and any slug of the pool, to updatePageAction of            *)
(* actions/page.ts and to the one of actions.ts; pages are deleted in      *)
(* between, so that an id may name no row.                                 *)
(***************************************************************************)
FormTitle == << "N" >>

NextForm ==
    \/ \E pageId \in PageIds, slug \in SlugPool :
          UpdatePageAction(pageId, FormTitle, slug, FALSE, FALSE)
    \/ \E pageId \in PageIds, slug \in SlugPool :
          UpdatePageActionActionsTs(pageId, FormTitle, slug, FALSE, FALSE)
    \/ \E pageId \in PageIds : DeletePageAction(pageId)

SpecForm == InitSeeded /\ [][NextForm]_vars

(***************************************************************************)
(* Specification: titles and slugs of any characters                       *)
(*                                                                         *)
(* Pages are created from titles holding "/", "%", "_", upper case, white  *)
(* space and a letter outside ASCII, renamed with slugs the schema accepts *)
(* and slugs it rejects, and nested one entry at a time.                   *)
(***************************************************************************)
TitleTexts ==
    { << "A", " ", "b" >>, << "a", "/", "b" >>, << "b", "_", "%" >>, << "é" >> }

SubmittedSlugs ==
    { << "c", "-", "1" >>, << "a", "/", "b" >>, << "a", "%" >>,
      << "a", "_", "b" >>, << "B" >>, << "a", " " >>, <<>> }

NextSlug ==
    \/ \E title \in TitleTexts : CreatePageAction(title)
    \/ \E pageId \in PageIds, slug \in SubmittedSlugs : Rename(pageId, slug)
    \/ \E e \in OrderEntries : ForestPayload(<<e>>) /\ SavePageOrder(<<e>>)

SpecSlug == Init /\ [][NextSlug]_vars

(***************************************************************************)
(* Specification: the path updaters, called directly                       *)
(*                                                                         *)
(* Strategy A and Strategy C on the tables of the previous specification   *)
(* (all sortOrder 0), called for every id and for the tree below every     *)
(* parentId, one call after another.                                       *)
(***************************************************************************)
UpdaterStores ==
    { pgs \in CoreStores : \A i \in Ids(pgs) : pgs[i].sortOrder = 0 }

\* updatePageFullPath(pageId); last.ok tells whether it returned.
CallUpdatePageFullPath(pageId) ==
    /\ IF generateFullPath(pages, pageId) = Diverges
       THEN /\ last' = Done("updatePageFullPath", pageId, FALSE, Diverges)
            /\ UNCHANGED pages
       ELSE /\ pages' = updatePageFullPath(pages, pageId)
            /\ last' = Done("updatePageFullPath", pageId, TRUE,
                            generateFullPath(pages, pageId))
    /\ UNCHANGED <<translations, reqs>>
    /\ UNCHANGED auth

\* updateFullPathsForTree(tree) with the tree built below parentId; last.old
\* holds the tree and the writes the call issued.
CallUpdateFullPathsForTree(parentId) ==
    LET allPages == SelectAllPages(pages)
    IN  /\ IF ~buildPageTreeReturns(allPages, parentId)
           THEN /\ last' = Done("updateFullPathsForTree", parentId, FALSE,
                                [ tree |-> Diverges, writes |-> <<>> ])
                /\ UNCHANGED pages
           ELSE LET tree == buildPageTree(allPages, translations, parentId)
                IN  /\ pages' = updateFullPathsForTree(pages, tree)
                    /\ last' = Done("updateFullPathsForTree", parentId, TRUE,
                                    [ tree |-> tree, writes |-> PathWrites(tree) ])
        /\ UNCHANGED <<translations, reqs>>
        /\ UNCHANGED auth

InitUpdater ==
    /\ pages \in UpdaterStores
    /\ translations = [i \in Ids(pages) |-> NewTranslations]
    /\ last = Done("none", Null, TRUE, <<>>)
    /\ reqs = <<>>
    /\ auth = NoAuth

NextUpdater ==
    \/ \E pageId \in PageIds : CallUpdatePageFullPath(pageId)
    \/ \E parentId \in {Null} \cup PageIds : CallUpdateFullPathsForTree(parentId)

SpecUpdater == InitUpdater /\ [][NextUpdater]_vars

(***************************************************************************)
(* Specification: reorders on tables with pages outside the tree           *)
(*                                                                         *)
(* savePageOrder with one-entry payloads of any shape, on the tables of    *)
(* the previous specification; updatePageFullPath stores a path for a page *)
(* before the reorder runs its batch recompute.                            *)
(***************************************************************************)
NextReorder ==
    \/ \E pageId \in PageIds : CallUpdatePageFullPath(pageId)
    \/ \E e \in OrderEntries : SavePageOrder(<<e>>)

SpecReorder == InitUpdater /\ [][NextReorder]_vars

(***************************************************************************)
(* Sessions                                                                *)
(*                                                                         *)
(* auth.sessions is the sessions table keyed by session id, auth.issued    *)
(* the tokens generateSessionToken has handed out and auth.now the clock   *)
(* in milliseconds, as Date.now() reads it.  The expires_at column is an   *)
(* integer in timestamp mode: it keeps whole seconds.                      *)
(***************************************************************************)
Tokens == {"t1", "t2"}

\* The session cookie of a request: a token, or none.
NoCookie == "<none>"
UserIds == {1}

MaxNow == 8000000
ClockSteps == {870000, 3600000, 3600500}

MsPerSecond == 1000
MsPerMinute == 60000
SessionMinutes == 60
ExtendWithinMinutes == 45

\* encodeHexLowerCase(sha256(token)): one id per token.
SessionIdOf(token) == <<"sha256", token>>

addMinutes(date, amount) == date + amount * MsPerMinute

\* date-fns: the whole minutes between the two dates, rounded towards zero.
differenceInMinutes(laterDate, earlierDate) ==
    LET diff == laterDate - earlierDate
    IN  IF diff >= 0 THEN diff \div MsPerMinute ELSE -((-diff) \div MsPerMinute)

\* What the expires_at column gives back for a Date written to it.
StoredTimestamp(date) == (date \div MsPerSecond) * MsPerSecond

NoSession == [ session |-> <<>>, user |-> <<>> ]
Authenticated(session) == [ session |-> <<session>>, user |-> <<session.userId>> ]

IsExpired_Strict(session, now) == now > session.expiresAt

\* Date.now() >= session.expiresAt.getTime()
IsExpired(session, now) == now >= session.expiresAt

\* createSession(token, userId) with the token generateSessionToken has just
\* drawn: 160 random bits, so a token no session was created with before.
CreateSession(token, userId) ==
    LET sessionId == SessionIdOf(token)
        session == [ id |-> sessionId, userId |-> userId,
                     expiresAt |-> addMinutes(auth.now, SessionMinutes) ]
    IN  /\ token \notin auth.issued
        /\ auth' = [ auth EXCEPT
                       !.issued = @ \cup {token},
                       !.sessions = [ id \in DOMAIN @ \cup {sessionId} |->
                                        IF id = sessionId
                                        THEN [ session EXCEPT !.expiresAt =
                                                 StoredTimestamp(session.expiresAt) ]
                                        ELSE @[id] ] ]
        /\ last' = Done("createSession", token, TRUE, Authenticated(session))
        /\ UNCHANGED <<pages, translations, reqs>>

\* validateSessionToken(token) on the tables a: what it returns and the
\* sessions table it leaves.
validateSessionToken(a, token) ==
    LET sessionId == SessionIdOf(token)
        now == a.now
    IN  IF sessionId \notin DOMAIN a.sessions
        THEN [ returned |-> NoSession, sessions |-> a.sessions ]
        ELSE LET session == a.sessions[sessionId]
             IN  IF IsExpired(session, now)
                 THEN [ returned |-> NoSession,
                        sessions |-> [ id \in DOMAIN a.sessions \ {sessionId} |->
                                         a.sessions[id] ] ]
                 ELSE IF differenceInMinutes(session.expiresAt, now) <= ExtendWithinMinutes
                      THEN LET expiresAt == addMinutes(now, SessionMinutes)
                           IN  [ returned |-> Authenticated([ session EXCEPT
                                                                !.expiresAt = expiresAt ]),
                                 sessions |-> [ a.sessions EXCEPT ![sessionId].expiresAt =
                                                  StoredTimestamp(expiresAt) ] ]
                      ELSE [ returned |-> Authenticated(session), sessions |-> a.sessions ]

\* A request that calls validateSessionToken(token); last.old is what it
\* returns.
ValidateSessionToken(token) ==
    LET validated == validateSessionToken(auth, token)
    IN  /\ auth' = [ auth EXCEPT !.sessions = validated.sessions ]
        /\ last' = Done("validateSessionToken", token,
                        validated.returned.session # <<>>, validated.returned)
        /\ UNCHANGED <<pages, translations, reqs>>

\* Time passes between two requests.
ClockAdvances(ms) ==
    /\ auth.now + ms <= MaxNow
    /\ auth' = [ auth EXCEPT !.now = @ + ms ]
    /\ UNCHANGED <<pages, translations, last, reqs>>

InitSession ==
    /\ pages = <<>>
    /\ translations = <<>>
    /\ last = Done("none", NoCookie, TRUE, <<>>)
    /\ reqs = <<>>
    /\ auth = NoAuth

NextSession ==
    \/ \E token \in Tokens, userId \in UserIds : CreateSession(token, userId)
    \/ \E token \in Tokens : ValidateSessionToken(token)
    \/ \E ms \in ClockSteps : ClockAdvances(ms)

SpecSession == InitSession /\ [][NextSession]_vars

(***************************************************************************)
(* Invitations                                                             *)
(*                                                                         *)
(* auth.users is the users table and auth.invitations the invitations      *)
(* table keyed by its unique code.  A nullable column is <<>> when null    *)
(* and <<v>> when it holds v.                                              *)
(***************************************************************************)
\* Users who signed in with GitHub and hold no invitation yet.
InviteUserIds == {1, 2}

\* The user the invitations were created by.
InviteAdmin == 3

HexChars ==
    { "A", "B", "C", "D", "E", "F",
      "0", "1", "2", "3", "4", "5", "6", "7", "8", "9" }

toUpperCase(c) ==
    CASE c = "a" -> "A"
      [] c = "b" -> "B"
      [] c = "c" -> "C"
      [] c = "d" -> "D"
      [] c = "e" -> "E"
      [] c = "f" -> "F"
      [] c = "x" -> "X"
      [] OTHER -> c

RECURSIVE trimStart(_)
trimStart(s) ==
    IF s # <<>> /\ IsWhitespace(Head(s)) THEN trimStart(Tail(s)) ELSE s

RECURSIVE trimEnd(_)
trimEnd(s) ==
    IF s # <<>> /\ IsWhitespace(s[Len(s)]) THEN trimEnd(SubSeq(s, 1, Len(s) - 1)) ELSE s

\* rawCode.trim().toUpperCase()
NormalizeCode(rawCode) ==
    LET trimmed == trimEnd(trimStart(rawCode))
    IN  [i \in 1..Len(trimmed) |-> toUpperCase(trimmed[i])]

\* /^[A-F0-9]{4}-[A-F0-9]{4}-[A-F0-9]{4}$/
codePattern(code) ==
    /\ Len(code) = 14
    /\ \A i \in 1..14 : IF i \in {5, 10} THEN code[i] = "-" ELSE code[i] \in HexChars

CodeA == << "A", "B", "1", "2", "-", "C", "D", "3", "4", "-", "E", "F", "5", "6" >>
CodeB == << "0", "0", "0", "0", "-", "0", "0", "0", "1", "-", "0", "0", "0", "2" >>
CodeNotStored == << "F", "F", "F", "F", "-", "F", "F", "F", "F", "-", "F", "F", "F", "F" >>
\* A stored code of the twelve-character form, which is not the form the
\* handler accepts.
CodeTwelve == << "A", "B", "C", "1", "2", "3", "X", "Y", "Z", "4", "5", "6" >>

\* The code field of the submitted form.
RawCodes ==
    { CodeA, CodeB, CodeNotStored, CodeTwelve, <<>>, << " " >>,
      << " ", "a", "b", "1", "2", "-", "c", "d", "3", "4", "-", "e", "f", "5", "6", " " >> }

InvitationExpiry == 3600000
InvitationExpiryLate == 9000000

NewInvitation(code, expiresAt) ==
    [ code |-> code, createdBy |-> InviteAdmin, expiresAt |-> expiresAt,
      usedBy |-> <<>>, usedAt |-> <<>> ]

\* GitHub's id of the account a user row was created for.
GitHubIdOf(id) == 100 + id

NewUser(id, githubId, invitationAcceptedAt) ==
    [ id |-> id, githubId |-> githubId, invitationAcceptedAt |-> invitationAcceptedAt ]

\* getCurrentSession() with the session cookie of the request.
getCurrentSession(a, token) ==
    IF token = NoCookie
    THEN [ returned |-> NoSession, sessions |-> a.sessions ]
    ELSE validateSessionToken(a, token)

\* getInvitationByCode(code): the row with that code, if any.
getInvitationByCode(a, code) ==
    IF code \in DOMAIN a.invitations THEN << a.invitations[code] >> ELSE <<>>

IsInvitationValidOutcomes_IgnoreUsed(invitation, now) ==
    IF now > invitation.expiresAt THEN {FALSE}
    ELSE IF now = invitation.expiresAt THEN {TRUE, FALSE}
    ELSE {TRUE}

\* isInvitationValid(invitation): false for a used and for an expired
\* invitation, true for an unused one before its expiry; at the instant of
\* expiry either answer.
IsInvitationValidOutcomes(invitation, now) ==
    IF invitation.usedBy # <<>> THEN {FALSE}
    ELSE IF now > invitation.expiresAt THEN {FALSE}
    ELSE IF now = invitation.expiresAt THEN {TRUE, FALSE}
    ELSE {TRUE}

\* useInvitation(code, userId): marks the invitation as used.
useInvitation(invitations, code, userId, now) ==
    [ invitations EXCEPT ![code].usedBy = << userId >>,
                         ![code].usedAt = << StoredTimestamp(now) >> ]

\* acceptInvitationForUser(userId)
acceptInvitationForUser(users, userId, now) ==
    [ users EXCEPT ![userId].invitationAcceptedAt = << StoredTimestamp(now) >> ]

\* The write of the try block that throws, if one does.
Faults == { "none", "useInvitation", "acceptInvitationForUser" }

SubmitError(message) == [ error |-> << message >> ]
Redirected(to) == [ redirect |-> << to >> ]

\* submitInvitation(prevState, formData) of a request carrying the session
\* cookie token; last.old is what it returns, or where it redirects.
SubmitInvitation(token, rawCode, fault) ==
    LET code == NormalizeCode(rawCode)
        current == getCurrentSession(auth, token)
        seen == [ auth EXCEPT !.sessions = current.sessions ]
        Fails(message) ==
            /\ auth' = seen
            /\ last' = Done("submitInvitation", token, FALSE, SubmitError(message))
    IN  /\ IF current.returned.user = <<>>
           THEN Fails("You must be logged in to submit an invitation code")
           ELSE LET user == auth.users[current.returned.user[1]]
                    found == getInvitationByCode(auth, code)
                IN  IF user.invitationAcceptedAt # <<>>
                    THEN Fails("You have already accepted an invitation")
                    ELSE IF code = <<>>
                    THEN Fails("Invitation code is required")
                    ELSE IF ~codePattern(code)
                    THEN Fails("Invalid code format. Expected format: XXXX-XXXX-XXXX")
                    ELSE IF found = <<>>
                    THEN Fails("Invitation code not found. Please check and try again.")
                    ELSE \E valid \in IsInvitationValidOutcomes(found[1], auth.now) :
                           IF ~valid
                           THEN IF found[1].usedBy # <<>>
                                THEN Fails("This invitation code has already been used.")
                                ELSE IF auth.now > found[1].expiresAt
                                THEN Fails("This invitation code has expired.")
                                ELSE Fails("Invalid or expired invitation code")
                           ELSE LET used == useInvitation(auth.invitations, code,
                                                          user.id, auth.now)
                                    accepted == acceptInvitationForUser(auth.users,
                                                                        user.id, auth.now)
                                IN  CASE fault = "useInvitation" ->
                                           Fails("Failed to accept invitation. Please try again.")
                                      [] fault = "acceptInvitationForUser" ->
                                           /\ auth' = [ seen EXCEPT !.invitations = used ]
                                           /\ last' = Done("submitInvitation", token, FALSE,
                                                  SubmitError("Failed to accept invitation. Please try again."))
                                      [] OTHER ->
                                           /\ auth' = [ seen EXCEPT !.invitations = used,
                                                                    !.users = accepted ]
                                           /\ last' = Done("submitInvitation", token, TRUE,
                                                           Redirected("/admin"))
        /\ UNCHANGED <<pages, translations, reqs>>

\* Time passes: an hour between two requests.
HourPasses ==
    /\ auth.now + InvitationExpiry <= MaxNow
    /\ auth' = [ auth EXCEPT !.now = @ + InvitationExpiry ]
    /\ UNCHANGED <<pages, translations, last, reqs>>

InitInvite ==
    /\ pages = <<>>
    /\ translations = <<>>
    /\ last = Done("none", NoCookie, TRUE, <<>>)
    /\ reqs = <<>>
    /\ auth = [ NoAuth EXCEPT
                  !.users = [ id \in InviteUserIds \cup {InviteAdmin} |->
                                NewUser(id, GitHubIdOf(id),
                                        IF id = InviteAdmin THEN << 0 >> ELSE <<>>) ],
                  !.invitations =
                      [ code \in {CodeA, CodeB, CodeTwelve} |->
                          NewInvitation(code, IF code = CodeA THEN InvitationExpiry
                                              ELSE InvitationExpiryLate) ] ]

NextInvite ==
    \/ \E token \in Tokens, userId \in InviteUserIds : CreateSession(token, userId)
    \/ \E token \in Tokens \cup {NoCookie}, rawCode \in RawCodes, fault \in Faults :
          SubmitInvitation(token, rawCode, fault)
    \/ HourPasses

SpecInvite == InitInvite /\ [][NextInvite]_vars

(***************************************************************************)
(* GitHub sign-in                                                          *)
(*                                                                         *)
(* The callback route of the OAuth flow.  A request is its two query       *)
(* parameters and the two cookies the browser sends with it; an absent     *)
(* parameter or cookie is <<>>, a present one <<v>>.  GitHub is the set of *)
(* authorization codes it would exchange, each for one of its accounts.    *)
(***************************************************************************)
\* Authorization codes GitHub accepts, and the account each stands for: the
\* first has a user row, the second has none yet.
GitHubAccountOf(code) == IF code = "code-1" THEN GitHubIdOf(1) ELSE GitHubIdOf(2)
GitHubCodes == { "code-1", "code-2" }

QueryCodes == { <<>>, << "code-1" >>, << "code-2" >>, << "forged" >> }
QueryStates == { <<>>, << "s1" >>, << "s2" >> }
StateCookies == { <<>>, << "s1" >>, << "s2" >> }
RedirectCookies == { <<>>, << "/fa/admin" >> }

Requests ==
    [ code : QueryCodes, state : QueryStates,
      storedState : StateCookies, storedRedirect : RedirectCookies ]

StateMatches_Always(state, storedState) == TRUE

\* state !== storedState, negated
StateMatches(state, storedState) == state = storedState

\* github.validateAuthorizationCode(code): throws unless GitHub issued the
\* code.
validateAuthorizationCode(code) == code \in GitHubCodes

\* getUserFromGitHubId(githubId): the user row with that githubId, if any.
getUserFromGitHubId(users, githubId) ==
    IF \E id \in DOMAIN users : users[id].githubId = githubId
    THEN << users[CHOOSE id \in DOMAIN users : users[id].githubId = githubId] >>
    ELSE <<>>

NextUserId(users) ==
    IF DOMAIN users = {} THEN 1
    ELSE (CHOOSE m \in DOMAIN users : \A id \in DOMAIN users : id <= m) + 1

\* createUserFromGitHubId(githubId, username): a new row, no invitation
\* accepted.
createUserFromGitHubId(users, githubId) ==
    LET id == NextUserId(users)
    IN  [ i \in DOMAIN users \cup {id} |->
            IF i = id THEN NewUser(id, githubId, <<>>) ELSE users[i] ]

BadRequest == [ status |-> 400, location |-> <<>>, cookies |-> <<>>, deleted |-> {} ]
ServerError == [ status |-> 500, location |-> <<>>, cookies |-> <<>>, deleted |-> {} ]

\* GET of the callback route; sessionToken is the token generateSessionToken
\* draws.  last.old is the response.
GitHubCallback(request, sessionToken) ==
    /\ IF request.code = <<>> \/ request.state = <<>> \/ request.storedState = <<>>
       THEN /\ last' = Done("GET github/callback", request, FALSE, BadRequest)
            /\ UNCHANGED auth
       ELSE IF ~StateMatches(request.state, request.storedState)
       THEN /\ last' = Done("GET github/callback", request, FALSE, BadRequest)
            /\ UNCHANGED auth
       ELSE IF ~validateAuthorizationCode(request.code[1])
       THEN /\ last' = Done("GET github/callback", request, FALSE, BadRequest)
            /\ UNCHANGED auth
       ELSE LET githubUserId == GitHubAccountOf(request.code[1])
                existingUser == getUserFromGitHubId(auth.users, githubUserId)
                users == IF existingUser = <<>>
                         THEN createUserFromGitHubId(auth.users, githubUserId)
                         ELSE auth.users
                user == getUserFromGitHubId(users, githubUserId)[1]
                sessionId == SessionIdOf(sessionToken)
                session == [ id |-> sessionId, userId |-> user.id,
                             expiresAt |-> addMinutes(auth.now, SessionMinutes) ]
                sessions == [ id \in DOMAIN auth.sessions \cup {sessionId} |->
                                IF id = sessionId
                                THEN [ session EXCEPT !.expiresAt =
                                         StoredTimestamp(session.expiresAt) ]
                                ELSE auth.sessions[id] ]
                redirectPath ==
                    IF user.invitationAcceptedAt = <<>>
                    THEN (IF request.storedRedirect # <<>> THEN request.storedRedirect
                          ELSE << "/en/invitation/validate" >>)
                    ELSE IF request.storedRedirect # <<>> THEN request.storedRedirect
                    ELSE << "/admin" >>
            IN  /\ sessionToken \notin auth.issued
                /\ auth' = [ auth EXCEPT !.users = users, !.sessions = sessions,
                                         !.issued = @ \cup {sessionToken} ]
                /\ last' = Done("GET github/callback", request, sessionId \in DOMAIN sessions,
                                IF sessionId \notin DOMAIN sessions THEN ServerError
                                ELSE [ status |-> 302, location |-> redirectPath,
                                       cookies |-> << [ name |-> "session",
                                                        value |-> sessionToken,
                                                        expires |-> session.expiresAt ] >>,
                                       deleted |-> {"github_oauth_state"} \cup
                                                   (IF request.storedRedirect # <<>>
                                                    THEN {"github_oauth_redirect"}
                                                    ELSE {}) ])
    /\ UNCHANGED <<pages, translations, reqs>>

\* Before the first callback: a request that carries nothing.
NoRequest == [ code |-> <<>>, state |-> <<>>, storedState |-> <<>>, storedRedirect |-> <<>> ]

InitOAuth ==
    /\ pages = <<>>
    /\ translations = <<>>
    /\ last = Done("none", NoRequest, TRUE, <<>>)
    /\ reqs = <<>>
    /\ auth = [ NoAuth EXCEPT !.users = [ id \in {1} |-> NewUser(1, GitHubIdOf(1), << 0 >>) ] ]

NextOAuth ==
    \/ \E request \in Requests, sessionToken \in Tokens :
          GitHubCallback(request, sessionToken)
    \/ HourPasses

SpecOAuth == InitOAuth /\ [][NextOAuth]_vars

(***************************************************************************)
(* Properties                                                              *)
(***************************************************************************)
HasPath(p) == Len(p) >= 1

\* C1: after any sequence of completed create / rename / reorder calls every
\* page with a parent has fullPath = parent's fullPath + "/" + slug and every
\* root page has fullPath = slug.
C1_PathInvariantAfterMutations == PathInvariant

\* C9: after a successful createPageAction the stored fullPath of the new
\* page equals generateFullPath of it (its slug, for a page created at root).
C9_CreateStoresGeneratedPath ==
    (last.op = "createPageAction" /\ last.ok)
        => pages[last.id].fullPath = generateFullPath(pages, last.id)

\* The segments of a path with the last one replaced.
WithLastSegment(segs, slug) == [segs EXCEPT ![Len(segs)] = slug]

SegmentPrefix(pre, segs) ==
    Len(pre) < Len(segs) /\ SubSeq(segs, 1, Len(pre)) = pre

\* C2: a rename of a page stored at prefix/oldSlug stores prefix/newSlug for
\* it, and every page stored at old/rest is stored at new/rest afterwards.
C2_SlugChangeValues ==
    [][ \A pageId \in PageIds, slug \in SlugPool :
          ( /\ Rename(pageId, slug)
            /\ last'.ok
            /\ Split(pages[pageId].fullPath)[Len(Split(pages[pageId].fullPath))]
                   = pages[pageId].slug )
          => LET oldSegs == Split(pages[pageId].fullPath)
                 newSegs == WithLastSegment(oldSegs, slug)
             IN  /\ pages'[pageId].fullPath = Join(newSegs)
                 /\ pages'[pageId].slug = slug
                 /\ \A q \in Ids(pages) :
                      SegmentPrefix(oldSegs, Split(pages[q].fullPath))
                        => LET segs == Split(pages[q].fullPath)
                               rest == SubSeq(segs, Len(oldSegs) + 1, Len(segs))
                           IN  pages'[q].fullPath = Join(newSegs \o rest) ]_vars

\* A rename has moved a page together with a descendant two levels below it.
C2_Witness ==
    /\ last.op = "updatePageAction" /\ last.ok
    /\ HasPath(last.old)
    /\ pages[last.id].fullPath # last.old
    /\ \E q \in Ids(pages) :
          /\ Len(Split(pages[q].fullPath)) >= Len(Split(last.old)) + 2
          /\ StartsWith(pages[q].fullPath, pages[last.id].fullPath \o <<"/">>)

\* C3: a rename rewrites the fullPath of the renamed page and of the pages
\* stored under oldFullPath + "/" only; every other row is left as it was,
\* also one whose path shares a prefix with oldFullPath without the "/".
C3_SlugChangeFrame ==
    [][ \A pageId \in PageIds, slug \in SlugPool :
          (Rename(pageId, slug) /\ last'.ok)
          => LET old == pages[pageId].fullPath
             IN  \A q \in Ids(pages) \ {pageId} :
                   IF StartsWith(pages[q].fullPath, old \o <<"/">>)
                   THEN pages'[q] = [pages[q] EXCEPT !.fullPath =
                           pages'[pageId].fullPath
                              \o SubSeq(pages[q].fullPath, Len(old) + 1,
                                        Len(pages[q].fullPath))]
                   ELSE pages'[q] = pages[q] ]_vars

\* A rename rewrote a descendant while another page, whose path begins with
\* the old path but not with old + "/", kept its path.
C3_Witness ==
    /\ last.op = "updatePageAction" /\ last.ok
    /\ HasPath(last.old)
    /\ pages[last.id].fullPath # last.old
    /\ \E q \in Ids(pages) :
          StartsWith(pages[q].fullPath, pages[last.id].fullPath \o <<"/">>)
    /\ \E q \in Ids(pages) \ {last.id} :
          /\ StartsWith(pages[q].fullPath, last.old)
          /\ ~StartsWith(pages[q].fullPath, last.old \o <<"/">>)
          /\ ~StartsWith(pages[q].fullPath, pages[last.id].fullPath)

\* The slugs from the root down to page i, for a chain that ends at null.
RECURSIVE ChainSlugs(_, _)
ChainSlugs(pgs, i) ==
    IF pgs[i].parentId = Null THEN <<pgs[i].slug>>
    ELSE Append(ChainSlugs(pgs, pgs[i].parentId), pgs[i].slug)

\* Page i is in the tree built from null: its chain of parents ends at null.
RECURSIVE ReachesNull(_, _, _)
ReachesNull(pgs, i, fuel) ==
    IF i = Null THEN TRUE
    ELSE IF i \notin Ids(pgs) \/ fuel = 0 THEN FALSE
    ELSE ReachesNull(pgs, pgs[i].parentId, fuel - 1)

InTree(pgs, i) == ReachesNull(pgs, i, Cardinality(Ids(pgs)))

\* C4: after a savePageOrder that ran its batch recompute, every page of the
\* tree is stored under the slash-joined slugs of its new chain of parents.
C4_ReorderRecomputesPaths ==
    (last.op = "savePageOrder" /\ last.ok)
        => \A i \in Ids(pages) :
              InTree(pages, i) => pages[i].fullPath = Join(ChainSlugs(pages, i))

\* savePageOrder left a page directly under a root page while a third page
\* is also in that root's subtree (the reparenting of the scenario).
C4_Witness ==
    /\ last.op = "savePageOrder" /\ last.ok
    /\ \E r, c, d \in Ids(pages) :
          /\ c # d
          /\ pages[r].parentId = Null
          /\ pages[c].parentId = r /\ pages[d].parentId = r
          /\ pages[d].fullPath = pages[r].slug \o <<"/">> \o pages[d].slug

\* C5: a second batch recompute on unchanged slug / parentId data stores the
\* same fullPath for every page as the first one did.
C5_RecomputeIdempotent ==
    LET once  == RecomputeAllPaths(pages, translations)
        twice == RecomputeAllPaths(once, translations)
    IN  \A i \in Ids(pages) : twice[i].fullPath = once[i].fullPath

\* The store right after a batch recompute that wrote a three-level chain.
C5_Witness ==
    /\ last.op = "savePageOrder" /\ last.ok
    /\ \E i \in Ids(pages) : Len(Split(pages[i].fullPath)) = 3
    /\ RecomputeAllPaths(pages, translations) = pages

\* The tree savePageOrder and the admin sidebar build from the whole table.
WholeTree == buildPageTree(SelectAllPages(pages), translations, Null)

\* C6: for every page of the store the path found in the tree built from
\* null equals the path generated by the walk over the table, also for a
\* page whose chain of parents does not end at null.
C6_TreeDbEquivalence ==
    \A i \in Ids(pages) :
        getFullPathFromTree(WholeTree, i) = generateFullPath(pages, i)

\* C6 as amended: the two agree for every page whose chain of parents ends
\* at null; for any other page the tree lookup returns null, which the walk
\* never returns.
C6_TreeDbEquivalenceInTree ==
    \A i \in Ids(pages) :
        IF InTree(pages, i)
        THEN /\ getFullPathFromTree(WholeTree, i) = generateFullPath(pages, i)
             /\ generateFullPath(pages, i) = Join(ChainSlugs(pages, i))
        ELSE /\ getFullPathFromTree(WholeTree, i) = NoPath
             /\ generateFullPath(pages, i) # NoPath

\* A nested page inside the tree next to a page outside of it.
C6_Witness ==
    \E i, j \in Ids(pages) :
        /\ InTree(pages, i) /\ pages[i].parentId # Null
        /\ getFullPathFromTree(WholeTree, i) = pages[pages[i].parentId].slug
                                                  \o <<"/">> \o pages[i].slug
        /\ ~InTree(pages, j)
        /\ getFullPathFromTree(WholeTree, j) = NoPath

\* A page passes the menu filter of a locale.
PassesMenuFilter(i, locale) == pages[i].showOnMenu /\ translations[i][locale]

MenuOf(locale) == getMenuTree(pages, translations, locale)

\* C7: no page with showOnMenu = false and no page without a published
\* translation of the locale appears at any depth of getMenuTree(locale).
C7_MenuFiltering ==
    \A locale \in Locales : \A i \in MenuIds(MenuOf(locale)) :
        /\ i \in Ids(pages)
        /\ pages[i].showOnMenu
        /\ translations[i][locale]

\* A menu shows a page whose child is hidden by showOnMenu = false although
\* the child is published, and the same menu lacks a showOnMenu page that is
\* published in the other locale only.
C7_Witness ==
    \E locale \in Locales : \E p, c, d \in Ids(pages) :
        /\ p \in MenuIds(MenuOf(locale))
        /\ pages[c].parentId = p
        /\ ~pages[c].showOnMenu /\ translations[c][locale]
        /\ c \notin MenuIds(MenuOf(locale))
        /\ pages[d].showOnMenu /\ ~translations[d][locale]
        /\ \E other \in Locales : translations[d][other]
        /\ d \notin MenuIds(MenuOf(locale))

\* A page passes the filter while its parent was filtered out.
Orphan(i, locale) ==
    /\ PassesMenuFilter(i, locale)
    /\ pages[i].parentId # Null
    /\ pages[i].parentId \in Ids(pages)
    /\ ~PassesMenuFilter(pages[i].parentId, locale)

RootIds(items) == { items[k].id : k \in 1..Len(items) }

\* C8: a page that passes the menu filter while its parent was filtered out
\* appears in getMenuTree(locale), at root level.
C8_OrphanPlacedAtRoot ==
    \A locale \in Locales : \A i \in Ids(pages) :
        Orphan(i, locale) => i \in RootIds(MenuOf(locale))

\* C8 as amended: such a page appears nowhere in getMenuTree(locale), and
\* neither do its children.
C8_OrphanDropped ==
    \A locale \in Locales : \A i \in Ids(pages) :
        Orphan(i, locale) =>
            /\ i \notin MenuIds(MenuOf(locale))
            /\ \A j \in Ids(pages) :
                  pages[j].parentId = i => j \notin MenuIds(MenuOf(locale))

\* A non-empty menu lacks a page that passes its filter under a hidden parent.
C8_Witness ==
    \E locale \in Locales : \E i \in Ids(pages) :
        /\ Orphan(i, locale)
        /\ MenuOf(locale) # <<>>
        /\ i \notin MenuIds(MenuOf(locale))

\* C10: a reader of the pages table that runs between the round-trips of a
\* rename or of a reorder that started from a consistent table never sees
\* the path invariant violated.
C10_ReaderAtomicity ==
    \A r \in DOMAIN reqs :
        (reqs[r].pc # "idle" /\ reqs[r].held) => PathInvariant

\* Both requests have completed.
BothCompleted ==
    \A r \in RaceSlots : Submitted(r) /\ ~InFlight(r)

\* C11: two savePageOrder requests that run one after the other leave the
\* path invariant intact; only requests that overlap can leave it violated.
C11_RaceNeedsOverlap ==
    (BothCompleted /\ ~Journal.overlapped) => PathInvariant

\* Two overlapping requests have both completed, the path invariant is
\* violated, and the stored fullPath of some page is the one neither
\* request would have left alone.
C11_Witness ==
    /\ BothCompleted
    /\ Journal.overlapped
    /\ ~PathInvariant
    /\ Acyclic(pages)
    /\ \E i \in Ids(pages) :
          \A r \in RaceSlots : pages[i].fullPath # Journal.intended[r][i].fullPath

\* C12: after any sequence of createPageAction and updatePageAction calls,
\* accepted or rejected, no two pages of the table have the same slug.
C12_SlugsUnique ==
    \A i, j \in Ids(pages) : i # j => pages[i].slug # pages[j].slug

\* A rename of an existing page was rejected: the slug belongs to another
\* page, whatever the parents of the two are.
C12_Witness ==
    /\ last.op = "updatePageAction" /\ ~last.ok
    /\ last.id \in Ids(pages)
    /\ \E j \in Ids(pages) \ {last.id} :
          pages[j].parentId # pages[last.id].parentId

\* Where the chain of parents of page i ends: at a null parentId, at an id
\* that names no row, or nowhere.
RECURSIVE ChainEnd(_, _, _)
ChainEnd(pgs, i, fuel) ==
    IF i = Null THEN "null"
    ELSE IF i \notin Ids(pgs) THEN "missing"
    ELSE IF fuel = 0 THEN "cycle"
    ELSE ChainEnd(pgs, pgs[i].parentId, fuel - 1)

ChainEndOf(pgs, i) == ChainEnd(pgs, i, Cardinality(Ids(pgs)))

\* The rows from page i upwards, as far as rows exist.
RECURSIVE RowsUp(_, _, _)
RowsUp(pgs, i, fuel) ==
    IF i = Null \/ i \notin Ids(pgs) \/ fuel = 0 THEN <<>>
    ELSE <<i>> \o RowsUp(pgs, pgs[i].parentId, fuel - 1)

\* The slugs of those rows, topmost first.
SlugsDownTo(pgs, i) ==
    LET rows == RowsUp(pgs, i, Cardinality(Ids(pgs)))
    IN  [ k \in 1..Len(rows) |-> pgs[rows[Len(rows) + 1 - k]].slug ]

\* C13: generateFullPath returns for a missing row: the empty string when
\* the page itself is missing, and the joined slugs of the rows below the
\* missing ancestor when a lookup misses mid-walk.
C13_SilentDegradation ==
    (last.op = "generateFullPath" /\ ChainEndOf(pages, last.id) = "missing")
        => /\ last.ok
           /\ last.id \notin Ids(pages) => last.old = <<>>
           /\ last.old = Join(SlugsDownTo(pages, last.id))

\* The walk from a page passed its parent and then missed the grandparent.
C13_Witness ==
    /\ last.op = "generateFullPath"
    /\ ChainEndOf(pages, last.id) = "missing"
    /\ Len(SlugsDownTo(pages, last.id)) = 2
    /\ last.old = pages[pages[last.id].parentId].slug \o <<"/">> \o pages[last.id].slug

\* A path of exactly the given slugs, topmost first, joined by single "/".
WellFormedPath(path, slugs) ==
    /\ Split(path) = slugs
    /\ Len(path) >= 1
    /\ path[1] # "/" /\ path[Len(path)] # "/"
    /\ Len(slugs) = 1 => \A k \in 1..Len(path) : path[k] # "/"

\* The depth of a page whose chain of parents ends at null (root = 0).
Depth(pgs, i) == Len(RowsUp(pgs, i, Cardinality(Ids(pgs)))) - 1

\* The path a call has produced for page i.
ProducedFor(i) ==
    CASE last.op = "generateFullPath" /\ last.id = i -> {last.old}
      [] last.op = "getFullPathFromTree" /\ last.id = i -> {last.old}
      [] last.op = "buildFullPathMap" -> { e[2] : e \in { x \in last.old : x[1] = i } }
      [] OTHER -> {}

\* C14: the path generateFullPath, getFullPathFromTree or buildFullPathMap
\* produces for a page at depth d consists of the d+1 slugs of its chain,
\* root first, joined by single "/", without a leading or trailing "/"; for
\* a root page it is the slug alone.
C14_PathFormat ==
    \A i \in Ids(pages) :
        ChainEndOf(pages, i) = "null" =>
            \A path \in ProducedFor(i) :
                /\ WellFormedPath(path, SlugsDownTo(pages, i))
                /\ Len(Split(path)) = Depth(pages, i) + 1
                /\ Depth(pages, i) = 0 => path = pages[i].slug

\* buildFullPathMap has produced the paths of a root whose slug holds a "-",
\* of its child and of its grandchild.
C14_Witness ==
    /\ last.op = "buildFullPathMap"
    /\ \E i, j, k \in Ids(pages) :
          /\ Depth(pages, i) = 0 /\ pages[j].parentId = i /\ pages[k].parentId = j
          /\ ChainEndOf(pages, k) = "null"
          /\ ProducedFor(i) = { <<"a", "-", "b">> }
          /\ Len(Split(MapGet(last.old, k))) = 3

\* C15: a rename on a table whose paths are stale, because pages were moved
\* without a recompute, is accepted like any other rename and leaves at
\* least one page whose stored fullPath violates the path invariant.
C15_StrategyBMisuseSilent ==
    [][ \A pageId \in PageIds, slug \in SlugPool :
          ( /\ last'.op = "updatePageAction" /\ last'.id = pageId
            /\ ~PathInvariant
            /\ pageId \in Ids(pages)
            /\ \A c \in SlugOwners(pages, slug) : c = pageId
            /\ Rename(pageId, slug) )
          => (last'.ok /\ ~PathInvariant') ]_vars

\* A page was moved without a recompute and then renamed: the rename was
\* accepted and rewrote the path of the page, which is still not the path
\* of its chain of parents.
C15_Witness ==
    /\ last.op = "updatePageAction" /\ last.ok
    /\ pages[last.id].fullPath # last.old
    /\ pages[last.id].fullPath # Join(ChainSlugs(pages, last.id))
    /\ ~PathInvariant

\* Page i is its own ancestor.
OnCycle(pgs, i) ==
    /\ i \in Ids(pgs)
    /\ \E k \in 1..Len(RowsUp(pgs, pgs[i].parentId, Cardinality(Ids(pgs)))) :
          RowsUp(pgs, pgs[i].parentId, Cardinality(Ids(pgs)))[k] = i

HasCycle(pgs) == \E i \in Ids(pgs) : OnCycle(pgs, i)

\* C16: generateFullPath returns for every page whose chain of parents is
\* acyclic, after one lookup per level, and buildPageTree returns on acyclic
\* data; when the parent pointers contain a cycle, neither the walk from a
\* page of the cycle nor the tree builder returns.
C16_CyclesAndTermination ==
    /\ last.op = "generateFullPath"
          => /\ last.ok <=> ChainEndOf(pages, last.id) # "cycle"
             /\ ChainEndOf(pages, last.id) = "null"
                   => GenerateLookups(pages, last.id, 0) = Depth(pages, last.id) + 1
    /\ (last.op = "buildPageTree" /\ last.id = Null)
          => (last.ok <=> ~HasCycle(pages))

\* C16 as amended: the walk returns exactly for the pages whose chain does
\* not run into a cycle, after one lookup per level; buildPageTree returns on
\* any data when started from null, leaving out the pages on or below a
\* cycle, and does not return exactly when started from a page of a cycle.
C16_TerminationExact ==
    /\ last.op = "generateFullPath"
          => /\ last.ok <=> ChainEndOf(pages, last.id) # "cycle"
             /\ ChainEndOf(pages, last.id) = "null"
                   => GenerateLookups(pages, last.id, 0) = Depth(pages, last.id) + 1
    /\ last.op = "buildPageTree"
          => /\ last.ok <=> ~OnCycle(pages, last.id)
             /\ last.id = Null
                   => /\ last.ok
                      /\ TreeIds(last.old.tree)
                            = { i \in Ids(pages) : ChainEndOf(pages, i) = "null" }

\* buildPageTree started from null has returned a tree although two pages
\* are each other's parent; the tree holds the third page only.
C16_Witness ==
    /\ last.op = "buildPageTree" /\ last.id = Null /\ last.ok
    /\ \E i, j \in Ids(pages) :
          /\ i # j /\ pages[i].parentId = j /\ pages[j].parentId = i
          /\ Cardinality(TreeIds(last.old.tree)) = 1
          /\ TreeIds(last.old.tree) \cap {i, j} = {}

\* C17: savePageOrder rejects a parentId that would make a page its own
\* parent or the child of one of its descendants, so the parent relation is
\* acyclic after any sequence of savePageOrder calls.
C17_NoCyclePersisted == ~HasCycle(pages)

\* Every parentId is null or names a row of the table.
NoDanglingParent ==
    \A i \in Ids(pages) : pages[i].parentId = Null \/ pages[i].parentId \in Ids(pages)

\* C18: deletePageAction removes the page only if it exists and is no page's
\* parent; otherwise it returns "Page not found" or "Cannot delete page with
\* child pages" and leaves the table as it was; no parentId names a deleted
\* page afterwards.
C18_DeleteGuard ==
    [][ \A pageId \in PageIds :
          ( /\ last'.op = "deletePageAction" /\ last'.id = pageId
            /\ DeletePageAction(pageId) )
          => /\ IF pageId \notin Ids(pages)
                THEN ~last'.ok /\ last'.old = PageNotFound /\ pages' = pages
                ELSE IF \E c \in Ids(pages) : pages[c].parentId = pageId
                THEN ~last'.ok /\ last'.old = HasChildPages /\ pages' = pages
                ELSE /\ last'.ok
                     /\ Ids(pages') = Ids(pages) \ {pageId}
                     /\ \A i \in Ids(pages') : pages'[i] = pages[i]
             /\ NoDanglingParent => NoDanglingParent' ]_vars

\* The delete of a page that has a child was refused and both are still there.
C18_Witness ==
    /\ last.op = "deletePageAction" /\ ~last.ok
    /\ last.old = HasChildPages
    /\ last.id \in Ids(pages)
    /\ \E c \in Ids(pages) : c # last.id /\ pages[c].parentId = last.id

\* The lists of siblings of a tree: the root list and every children list.
RECURSIVE SiblingLists(_)
SiblingLists(tree) ==
    { [k \in 1..Len(tree) |-> tree[k].page] }
        \cup UNION { SiblingLists(tree[k].children) : k \in 1..Len(tree) }

ListBySortOrder(list) ==
    \A k, m \in 1..Len(list) : k < m => list[k].sortOrder <= list[m].sortOrder

PosIn(list, id) == CHOOSE k \in 1..Len(list) : list[k].id = id

C20_ExpiredNeverAuthenticates ==
    [][ \A token \in Tokens :
          LET sessionId == SessionIdOf(token)
              stored == sessionId \in DOMAIN auth.sessions
              expired == stored /\ auth.sessions[sessionId].expiresAt <= auth.now
              closeToExpiry ==
                  /\ stored
                  /\ ~expired
                  /\ auth.sessions[sessionId].expiresAt - auth.now
                        <= ExtendWithinMinutes * MsPerMinute
              moved == auth.now + SessionMinutes * MsPerMinute
          IN  /\ (/\ last'.op = "validateSessionToken"
                  /\ last'.id = token
                  /\ ValidateSessionToken(token))
                 => /\ (~stored \/ expired)
                         => /\ last'.old = NoSession
                            /\ sessionId \notin DOMAIN auth'.sessions
                    /\ closeToExpiry
                         => /\ last'.old.session # <<>>
                            /\ last'.old.session[1].expiresAt = moved
                            /\ auth'.sessions[sessionId].expiresAt = StoredTimestamp(moved)
              /\ (token \in auth.issued /\ ~stored)
                 => sessionId \notin DOMAIN auth'.sessions ]_vars

\* One token was refused at or after its expiry and its row deleted; another,
\* validated with less than 45 minutes left, came back with now + 60 minutes.
C20_Witness ==
    /\ last.op = "validateSessionToken"
    /\ last.ok
    /\ auth.now % MsPerSecond # 0
    /\ last.old.session[1].expiresAt = auth.now + SessionMinutes * MsPerMinute
    /\ auth.sessions[SessionIdOf(last.id)].expiresAt
          = StoredTimestamp(auth.now + SessionMinutes * MsPerMinute)
    /\ \E token \in auth.issued : SessionIdOf(token) \notin DOMAIN auth.sessions

\* The caller of a request with this session cookie: the user of its
\* unexpired session, if there is one.
CallerOf(token) ==
    IF /\ token # NoCookie
       /\ SessionIdOf(token) \in DOMAIN auth.sessions
       /\ auth.sessions[SessionIdOf(token)].expiresAt > auth.now
    THEN << auth.sessions[SessionIdOf(token)].userId >>
    ELSE <<>>

\* The conditions under which an invitation may be accepted.
MayAccept(token, code) ==
    /\ CallerOf(token) # <<>>
    /\ auth.users[CallerOf(token)[1]].invitationAcceptedAt = <<>>
    /\ code \in DOMAIN auth.invitations
    /\ auth.invitations[code].usedBy = <<>>
    /\ auth.invitations[code].expiresAt >= auth.now

CallbackAdmissible(request) ==
    /\ request.code # <<>>
    /\ request.state # <<>>
    /\ request.storedState # <<>>
    /\ request.state = request.storedState
    /\ request.code[1] \in GitHubCodes

\* C22: the GitHub callback handler creates a user or a session, or sets the
\* session cookie, only for a request with code, state and stored state all
\* present, state equal to the stored state and a valid authorization code;
\* for every other request it responds 400, sets no cookie and leaves the
\* users and sessions tables as they were.
C22_CallbackStateCheck ==
    [][ \A request \in Requests, sessionToken \in Tokens :
          (/\ last'.op = "GET github/callback"
           /\ last'.id = request
           /\ GitHubCallback(request, sessionToken))
          => /\ (\/ auth'.users # auth.users
                 \/ auth'.sessions # auth.sessions
                 \/ last'.old.cookies # <<>>)
                => CallbackAdmissible(request)
             /\ ~CallbackAdmissible(request)
                => /\ last'.old.status = 400
                   /\ last'.old.cookies = <<>>
                   /\ auth'.users = auth.users
                   /\ auth'.sessions = auth.sessions ]_vars

\* An admissible request of an account without a user row was answered with
\* a redirect and the session cookie: the user and the session now exist.
C22_Witness ==
    /\ last.op = "GET github/callback"
    /\ last.old.status = 302
    /\ CallbackAdmissible(last.id)
    /\ getUserFromGitHubId(auth.users, GitHubIdOf(2)) # <<>>
    /\ last.old.cookies # <<>>
    /\ SessionIdOf(last.old.cookies[1].value) \in DOMAIN auth.sessions
    /\ auth.sessions[SessionIdOf(last.old.cookies[1].value)].userId
          = getUserFromGitHubId(auth.users, GitHubIdOf(2))[1].id

\* The rows of the table differ at most in the fullPath of the pages in ids.
OnlyFullPathOf(pgs, after, ids) ==
    /\ Ids(after) = Ids(pgs)
    /\ \A i \in Ids(pgs) :
          /\ i \notin ids => after[i] = pgs[i]
          /\ after[i] = [pgs[i] EXCEPT !.fullPath = after[i].fullPath]

\* The pages below a page, by parent pointers.
RECURSIVE DescendantsOf(_, _, _)
DescendantsOf(pgs, ids, fuel) ==
    LET below == { i \in Ids(pgs) : pgs[i].parentId \in ids }
    IN  IF fuel = 0 THEN below
        ELSE below \cup DescendantsOf(pgs, below, fuel - 1)

\* C23: updatePageFullPath(pageId) sets the fullPath of the page with that id
\* to generateFullPath(pageId) and changes no other column of it and no other
\* row: the stored fullPath of its descendants is what it was.
C23_StrategyAFrame ==
    [][ \A pageId \in PageIds :
          (/\ last'.op = "updatePageFullPath"
           /\ last'.id = pageId
           /\ last'.ok
           /\ CallUpdatePageFullPath(pageId))
          => /\ OnlyFullPathOf(pages, pages', {pageId})
             /\ pageId \in Ids(pages)
                => pages'[pageId].fullPath = generateFullPath(pages, pageId)
             /\ \A d \in DescendantsOf(pages, {pageId}, MaxPages) \ {pageId} :
                   pages'[d].fullPath = pages[d].fullPath ]_vars

\* Strategy A has run on a page whose child holds a path of its own: the
\* page now holds its generated path, the child the path it had.
C23_Witness ==
    /\ last.op = "updatePageFullPath"
    /\ last.ok
    /\ last.id \in Ids(pages)
    /\ pages[last.id].fullPath = generateFullPath(pages, last.id)
    /\ Len(pages[last.id].fullPath) >= 1
    /\ \E d \in Ids(pages) :
          /\ d # last.id
          /\ pages[d].parentId = last.id
          /\ Len(pages[d].fullPath) >= 1

\* C24: updateFullPathsForTree(tree) issues one fullPath write for every
\* node of the tree, whatever the node's stored fullPath, and changes
\* nothing else: every other column of every page and the fullPath of the
\* pages outside the tree are what they were.
C24_StrategyCWriteSet ==
    [][ \A parentId \in {Null} \cup PageIds :
          (/\ last'.op = "updateFullPathsForTree"
           /\ last'.id = parentId
           /\ last'.ok
           /\ CallUpdateFullPathsForTree(parentId))
          => LET tree == last'.old.tree
                 writes == last'.old.writes
             IN  /\ OnlyFullPathOf(pages, pages', TreeIds(tree))
                 /\ { writes[k][1] : k \in 1..Len(writes) } = TreeIds(tree)
                 /\ Len(writes) = Cardinality(TreeIds(tree))
                 /\ \A i \in TreeIds(tree) :
                       pages'[i].fullPath = getFullPathFromTree(tree, i) ]_vars

\* Strategy C has run on the tree below a page, and a page outside that tree
\* still holds the path stored for it before.
C24_Witness ==
    /\ last.op = "updateFullPathsForTree"
    /\ last.ok
    /\ last.id # Null
    /\ TreeIds(last.old.tree) # {}
    /\ \E i \in Ids(pages) \ TreeIds(last.old.tree) : Len(pages[i].fullPath) >= 1

\* The trees the Tree Builder returns for the table: one per parentId it
\* returns for.
BuiltTrees ==
    { buildPageTree(SelectAllPages(pages), translations, parentId) :
        parentId \in { p \in {Null} \cup PageIds :
                         buildPageTreeReturns(SelectAllPages(pages), p) } }

\* C25: for every built tree and every id, getFullPathFromTree(tree, id)
\* equals the entry of buildFullPathMap(tree) for id when id is a node of the
\* tree, getFullPathFromTree returns null exactly when id is not a key of the
\* map, and the map has exactly one entry per node of the tree.
C25_TreeLookupsAgree ==
    \A tree \in BuiltTrees :
        LET pathMap == buildFullPathMap(tree, <<>>)
        IN  /\ MapKeys(pathMap) = TreeIds(tree)
            /\ Cardinality(pathMap) = Cardinality(TreeIds(tree))
            /\ \A id \in PageIds :
                  /\ id \in TreeIds(tree)
                     => getFullPathFromTree(tree, id) = MapGet(pathMap, id)
                  /\ (getFullPathFromTree(tree, id) = NoPath) <=> (id \notin MapKeys(pathMap))

\* The lookup of a nested page has returned the path the map holds for it,
\* and the table has a page that is in neither.
C25_Witness ==
    /\ last.op = "getFullPathFromTree"
    /\ last.id \in TreeIds(WholeTree)
    /\ pages[last.id].parentId # Null
    /\ last.old = MapGet(buildFullPathMap(WholeTree, <<>>), last.id)
    /\ Len(Split(last.old)) >= 2
    /\ \E j \in Ids(pages) :
          /\ j \notin MapKeys(buildFullPathMap(WholeTree, <<>>))
          /\ getFullPathFromTree(WholeTree, j) = NoPath

C27_RejectedRenameChangesNothing ==
    [][ \A pageId \in PageIds, slug \in SlugPool :
          LET rejected == \/ pageId \notin Ids(pages)
                          \/ \E i \in Ids(pages) : i # pageId /\ pages[i].slug = slug
          IN  /\ (/\ last'.op = "updatePageAction"
                  /\ last'.id = pageId
                  /\ rejected
                  /\ UpdatePageAction(pageId, FormTitle, slug, FALSE, FALSE))
                 => (~last'.ok /\ pages' = pages /\ translations' = translations)
              /\ (/\ last'.op = "updatePageAction (actions.ts)"
                  /\ last'.id = pageId
                  /\ rejected
                  /\ UpdatePageActionActionsTs(pageId, FormTitle, slug, FALSE, FALSE))
                 => (~last'.ok /\ pages' = pages /\ translations' = translations) ]_vars

\* A save of the form of an existing page was rejected, for its slug: the
\* page still has its old title, next to a page whose form was saved.
C27_Witness ==
    /\ last.op \in {"updatePageAction", "updatePageAction (actions.ts)"}
    /\ ~last.ok
    /\ last.id \in Ids(pages)
    /\ pages[last.id].title # FormTitle
    /\ pages[last.id].showOnMenu
    /\ \E i \in Ids(pages) : pages[i].title = FormTitle

SlashesIn(path) == Cardinality({ k \in 1..Len(path) : path[k] = "/" })

\* The page and every page above it are stored at parent path + "/" + slug.
ConsistentUpwards(pgs, i) ==
    LET rows == RowsUp(pgs, i, Cardinality(Ids(pgs)))
    IN  \A k \in 1..Len(rows) : PathConsistent(pgs, rows[k])

\* C28: every stored slug consists of a-z, 0-9 and "-" only, so it holds no
\* "/", "%" or "_".  The fullPath of a page that is consistent with the paths
\* above it has as many "/" as the page has ancestors, and the LIKE query of
\* Strategy B for a page's stored path matches exactly the paths that start
\* with that path and "/"; on a consistent table these are the paths of the
\* page's descendants.
C28_SlugAlphabet ==
    /\ \A i \in Ids(pages) : \A k \in 1..Len(pages[i].slug) :
          /\ pages[i].slug[k] \in SlugChars
          /\ pages[i].slug[k] \notin {"/", "%", "_"}
    /\ \A i \in Ids(pages) :
          ConsistentUpwards(pages, i) => SlashesIn(pages[i].fullPath) = Depth(pages, i)
    /\ \A i, j \in Ids(pages) :
          Like(pages[j].fullPath, DescendantPattern(pages[i].fullPath))
             <=> StartsWith(pages[j].fullPath, pages[i].fullPath \o <<"/">>)
    /\ PathInvariant
       => \A i \in Ids(pages) :
             SelectDescendants(pages, pages[i].fullPath)
                = DescendantsOf(pages, {i}, MaxPages) \ {i}

\* A page created from the title "a/b" is stored with the slug "ab", below
\* another page, on a table with consistent paths.
C28_Witness ==
    /\ PathInvariant
    /\ \E i \in Ids(pages) :
          /\ pages[i].title = << "a", "/", "b" >>
          /\ pages[i].slug = << "a", "b" >>
          /\ pages[i].parentId # Null
          /\ SlashesIn(pages[i].fullPath) = 1
          /\ i \in SelectDescendants(pages, pages[pages[i].parentId].fullPath)

\* How many nodes of the tree carry the page id.
RECURSIVE OccurrencesFrom(_, _, _)
OccurrencesFrom(tree, k, id) ==
    IF k > Len(tree) THEN 0
    ELSE (IF tree[k].page.id = id THEN 1 ELSE 0)
            + OccurrencesFrom(tree[k].children, 1, id)
            + OccurrencesFrom(tree, k + 1, id)

Occurrences(tree, id) == OccurrencesFrom(tree, 1, id)

\* The ids of the nodes that hold the page id among their children (null for
\* the top level of the tree).
RECURSIVE ParentNodesOf(_, _, _)
ParentNodesOf(tree, parent, id) ==
    UNION { (IF tree[k].page.id = id THEN {parent} ELSE {})
                \cup ParentNodesOf(tree[k].children, tree[k].page.id, id) :
            k \in 1..Len(tree) }

\* A parentId no row points to: null, a page id or an id past the last one.
Childless(pgs, parentId) == \A i \in Ids(pgs) : pgs[i].parentId # parentId

\* C29: the tree built from null holds every page whose chain of parents
\* ends at null exactly once, below the node of its parentId; it holds no
\* page whose chain does not end at null (missing parent or cycle); for a
\* parentId no page points to the builder returns the empty list; and a
\* savePageOrder that ran its batch recompute leaves the stored fullPath of
\* every page outside the tree as it was.
C29_TreeCoverage ==
    /\ [](/\ \A i \in Ids(pages) :
              IF InTree(pages, i)
              THEN /\ Occurrences(WholeTree, i) = 1
                   /\ ParentNodesOf(WholeTree, Null, i) = {pages[i].parentId}
              ELSE Occurrences(WholeTree, i) = 0
          /\ TreeIds(WholeTree) \subseteq Ids(pages)
          /\ \A parentId \in {Null} \cup PageIds \cup {MaxPages + 1} :
                Childless(pages, parentId)
                   => buildPageTree(SelectAllPages(pages), translations, parentId) = <<>>)
    /\ [][ \A e \in [ id : PageIds, parentId : {Null} \cup PageIds,
                       sortOrder : SortOrders ] :
             (/\ last'.op = "savePageOrder"
              /\ last'.ok
              /\ e \in OrderEntries
              /\ SavePageOrder(<<e>>))
             => \A i \in Ids(pages') :
                   ~InTree(pages', i) => pages'[i].fullPath = pages[i].fullPath ]_vars

\* A reorder has run its batch recompute on a table where one page hangs
\* below a missing parent and still holds the path stored for it before,
\* while a page of the tree, found there once, holds a path too.
C29_Witness ==
    /\ last.op = "savePageOrder"
    /\ last.ok
    /\ \E i \in Ids(pages) :
          /\ ~InTree(pages, i)
          /\ pages[i].parentId \notin Ids(pages)
          /\ Len(pages[i].fullPath) >= 1
    /\ \E i \in Ids(pages) :
          /\ InTree(pages, i)
          /\ Len(pages[i].fullPath) >= 1
          /\ Occurrences(WholeTree, i) = 1

====
